---- MODULE Spec2Model ----
(***************************************************************************)
(* Model of the A/B split-test front-end engine (src/unnamed/part_003):    *)
(* assignment of a visitor to a variation, the persisted per-experiment    *)
(* record, the goal / conversion triggers, the activity clock with its     *)
(* countdown timers and the redirect boundary of full-page tests.          *)
(*                                                                         *)
(* Every handler of the script (the document-ready handler, an event       *)
(* listener, the 1-second interval, a poll tick) runs to completion on the *)
(* single JavaScript thread, so each is one action.  Handlers are written  *)
(* as operators that take the whole state as a record w and return the     *)
(* state after the call, so that a handler that calls other functions is   *)
(* the composition of their operators.                                     *)
(***************************************************************************)
EXTENDS Integers, Sequences, FiniteSets, Bags, TLC

(***************************************************************************)
(* Bounds of the model.                                                    *)
(***************************************************************************)
\* Math.random() is drawn from the grid {0/RandRes, ..., (RandRes-1)/RandRes}.
RandRes == 3
\* No event (experiment, variation, type, value) is reported more often.
MaxReports == 2
\* Number of page loads in one behaviour.
MaxLoads == 3

(***************************************************************************)
(* JavaScript values that the code tests for truthiness.                   *)
(***************************************************************************)
Undefined == "undefined"

Falsy(v) == v \in {Undefined, ""}

Truthy(v) == ~Falsy(v)

\* target_percentage is the empty string or a number.
EmptyString == [ty |-> "string", n |-> 0]

JsNumber(n) == [ty |-> "number", n |-> n]

\* x == '' of JavaScript: a number is compared with ToNumber('') = 0.
LooseEqualsEmptyString(x) == x.n = 0

Put(f, k, v) == [x \in DOMAIN f \cup {k} |-> IF x = k THEN v ELSE f[x]]

EmptyMap == [x \in {} |-> 0]

(***************************************************************************)
(* Pages of the site and the experiments configured on it (bt_experiments, *)
(* conversion_details, btab_vars and the variation markup of each page are *)
(* produced by the server and read by the script).                         *)
(***************************************************************************)
Pages == {"p1", "p2", "p3"}

NoPage == "nopage"

Eids == {"e1", "e2"}

\* jQuery.each over bt_experiments / current_exp visits the ids in this order.
ExpOrder == <<"e1", "e2">>

\* Goal indices an experiment of the model uses at most.
GoalSlots == 3

NoGoals == << >>

SelectorGoal == [kind |-> "selector", page |-> "", time |-> 0]

TextGoal == [kind |-> "text", page |-> "", time |-> 0]

PageGoal(p) == [kind |-> "page", page |-> p, time |-> 0]

UrlGoal(p) == [kind |-> "url", page |-> p, time |-> 0]

TimeGoal(n) == [kind |-> "time", page |-> "", time |-> n]

NoMarkup == [p \in Pages |-> << >>]

\* url_query: '' (no key), 'key' (no value) or 'key=value'
NoQuery == [key |-> "", value |-> ""]

\* A page address without query string in a desktop window
NoContext == [query |-> "", width |-> 1000]

BaseExp ==
  [ test_type |-> "ab_test",
    test_winner |-> "",
    full_page_default_page |-> "",
    page_variations |-> << >>,
    css_test_variations |-> 0,
    conversion_page |-> "selector",
    conversion_time |-> 0,
    use_order_value |-> FALSE,
    goals |-> NoGoals,
    is_current_user_track |-> TRUE,
    test_status |-> "publish",
    target_percentage |-> JsNumber(100),
    url_query |-> NoQuery,
    target_option_device_size |-> {"all"},
    markup |-> NoMarkup ]

OnP1 == [NoMarkup EXCEPT !["p1"] = <<"a", "b">>]

(***************************************************************************)
(* State.                                                                  *)
(***************************************************************************)
VARIABLES
  bt_experiments,     \* server configuration: experiment id -> experiment
  conversion_details, \* server configuration: static conversion pages
  btab_vars,          \* server configuration: is_preview, is_free
  page_markup,        \* server configuration: ab-convert classes, iframes
  may_win,            \* variations the site owner may declare the winner
  btab,               \* persisted 'btab_<eid>' values
  abSetVisit,         \* persisted 'ab-set-visit' value
  absttimer,          \* persisted localStorage.absttimer
  post_id,            \* page loaded in the tab (btab_vars.post_id)
  timer,              \* window.abst.timer
  abactive,           \* window.abst.abactive
  timeoutTimer,       \* window.abst.timeoutTimer is pending
  scrollDirty,        \* window.abst.currscroll != window.scrollY
  mouseDirty,         \* window.abst.currentMousePos != window.abst.oldMousePos
  intervals,          \* running text-watcher intervals
  listeners,          \* registered click listeners
  scListeners,        \* registered scOrderPaid listeners
  abConversionValue,  \* window.abst.abConversionValue
  shown,              \* variation revealed for each experiment
  showPage,           \* body has class abst-show-page
  location,           \* argument of the last window.location.replace
  reports,            \* bag of the events handed to the reporting sink
  loads,              \* number of page loads so far
  ticked,             \* history: runs of abstOneSecond since a timer was set
  fired,              \* history: calls a timer made on reaching zero
  noops,              \* history: calls of abstConvert / abstGoal that found
                      \* the record converted (counted up to 2)
  context,            \* window.location.search and window width of the page
  pended,             \* history: experiments whose visit this page load
                      \* stored in 'ab-set-visit'
  readyThrew,         \* history: the document-ready handler of this page
                      \* load ended in an uncaught exception
  idled,              \* history: the interval callback ran on this page
                      \* while the clock was inactive
  tabs,               \* the call of abstConvert or abstGoal that is in
                      \* progress in each tab of the visitor
  useState,           \* the closure of useState(0): state, listeners,
                      \* updateQueue and isFlushing
  flushed,            \* history: the calls of setState since the last flush,
                      \* and what the last flush did
  created             \* createState(0): its listeners; history: whether
                      \* the listener was subscribed at each queued update,
                      \* and the calls it got in the last flush

vars == << bt_experiments, conversion_details, btab_vars, page_markup, may_win, btab,
           abSetVisit, absttimer, post_id, timer, abactive, timeoutTimer,
           scrollDirty, mouseDirty, intervals, listeners, scListeners,
           abConversionValue, shown, showPage, location, reports, loads,
           ticked, fired, noops, context, pended, readyThrew,
           idled, tabs, useState, flushed, created >>

\* The state as one record; threw is set when a handler raised an exception
\* that nothing caught (the rest of the handler is then not executed), and
\* redirectHandles holds the experiments whose bt-redirect-handle elements the
\* setup loop appended to the page.
World ==
  [ bt_experiments |-> bt_experiments, conversion_details |-> conversion_details,
    btab_vars |-> btab_vars, page_markup |-> page_markup,
    may_win |-> may_win, btab |-> btab,
    abSetVisit |-> abSetVisit, absttimer |-> absttimer, post_id |-> post_id,
    timer |-> timer, abactive |-> abactive, timeoutTimer |-> timeoutTimer,
    scrollDirty |-> scrollDirty, mouseDirty |-> mouseDirty,
    intervals |-> intervals, listeners |-> listeners,
    scListeners |-> scListeners, abConversionValue |-> abConversionValue,
    shown |-> shown, showPage |-> showPage, location |-> location,
    reports |-> reports, loads |-> loads, ticked |-> ticked,
    fired |-> fired, noops |-> noops, context |-> context,
    pended |-> pended, readyThrew |-> readyThrew, idled |-> idled,
    tabs |-> tabs,
    useState |-> useState, flushed |-> flushed,
    created |-> created,
    threw |-> FALSE,
    redirectHandles |-> {} ]

Commit(w) ==
  /\ bt_experiments' = w.bt_experiments
  /\ conversion_details' = w.conversion_details
  /\ btab_vars' = w.btab_vars
  /\ page_markup' = w.page_markup
  /\ may_win' = w.may_win
  /\ btab' = w.btab
  /\ abSetVisit' = w.abSetVisit
  /\ absttimer' = w.absttimer
  /\ post_id' = w.post_id
  /\ timer' = w.timer
  /\ abactive' = w.abactive
  /\ timeoutTimer' = w.timeoutTimer
  /\ scrollDirty' = w.scrollDirty
  /\ mouseDirty' = w.mouseDirty
  /\ intervals' = w.intervals
  /\ listeners' = w.listeners
  /\ scListeners' = w.scListeners
  /\ abConversionValue' = w.abConversionValue
  /\ shown' = w.shown
  /\ showPage' = w.showPage
  /\ location' = w.location
  /\ reports' = w.reports
  /\ loads' = w.loads
  /\ ticked' = w.ticked
  /\ fired' = w.fired
  /\ noops' = w.noops
  /\ context' = w.context
  /\ pended' = w.pended
  /\ readyThrew' = w.readyThrew
  /\ idled' = w.idled
  /\ tabs' = w.tabs
  /\ useState' = w.useState
  /\ flushed' = w.flushed
  /\ created' = w.created

(***************************************************************************)
(* Persisted values.  A stored string is absent, the JSON text of a record *)
(* / of the literal false, or text that JSON.parse rejects.                *)
(***************************************************************************)
NoCookie == [k |-> "absent"]

FalseCookie == [k |-> "false"]

Malformed == [k |-> "malformed"]

\* abstGetCookie / btGetLocal return a non-empty string.
HasCookie(c) == c.k # "absent"

IsJson(c) == c.k = "json"

TypeVisit == [type |-> "visit", goal |-> 0]

TypeConversion == [type |-> "conversion", goal |-> 0]

TypeGoal(g) == [type |-> "goal", goal |-> g]

\* Handle of the text-watcher interval stored at abst.intervals[e][g].
Handle(e, g) == [eid |-> e, goalId |-> g]

\* abst.intervals[e] is the object holding the handles of e, not a handle.
IntervalsObject(e) == [eid |-> e, goalId |-> -1]

\* clearInterval cancels the interval whose handle it is given.
ClearInterval(running, h) == running \ {h}

\* btab.goals[goal] of a parsed record: 1 when recorded, otherwise
\* undefined (or null after a JSON round trip of a sparse array).
GoalsAt(goals, goal) == IF goal \in goals THEN "1" ELSE Undefined

abRedirectUrl(url) == url

\* History: one more call for h found the record already converted.
NoteNoop(w, h) ==
  [w EXCEPT !.noops = IF h \in DOMAIN @
                        THEN [@ EXCEPT ![h] = IF @ < 2 THEN @ + 1 ELSE @]
                        ELSE Put(@, h, 1)]

Report(w, eid, variation, type, orderValue) ==
  [w EXCEPT !.reports = @ (+) SetToBag({[eid |-> eid, variation |-> variation,
                                         type |-> type.type, goal |-> type.goal,
                                         orderValue |-> orderValue]})]

TimeGoalKeys(exp) == {key \in DOMAIN exp.goals : exp.goals[key].time > 0}

\* The timers a logged visit of eid sets: eid itself for a 'time' conversion,
\* 'goal-<eid>-<key>' for every goal with a time
RegisteredTimers(w, eid) ==
  LET exp == w.bt_experiments[eid] IN
  (IF exp.conversion_page = "time" THEN {Handle(eid, 0)} ELSE {})
  \cup {Handle(eid, key) : key \in TimeGoalKeys(exp)}

TimerSeconds(w, h) ==
  IF h.goalId = 0 THEN w.bt_experiments[h.eid].conversion_time
  ELSE w.bt_experiments[h.eid].goals[h.goalId].time

RegisterTimers(w, eid) ==
  LET set == RegisteredTimers(w, eid) IN
  [w EXCEPT
     !.timer = [h \in DOMAIN @ \cup set |->
                  IF h \in set THEN TimerSeconds(w, h) ELSE @[h]],
     !.ticked = [h \in DOMAIN @ \cup set |-> IF h \in set THEN 0 ELSE @[h]],
     !.fired = [h \in DOMAIN @ \cup set |-> IF h \in set THEN 0 ELSE @[h]]]

bt_experiment_w(w, eid, variation, type, url, orderValue) ==
  IF w.threw THEN w
  ELSE IF variation = "_bt_skip_" \/ w.btab_vars.is_preview
          \/ Falsy(eid) \/ Falsy(variation)
    THEN w
  ELSE IF type = TypeVisit /\ Truthy(url)
    THEN [w EXCEPT !.abSetVisit = [k |-> "json", eid |-> eid,
                                   variation |-> variation, type |-> type,
                                   url |-> url, orderValue |-> orderValue],
                   !.location = abRedirectUrl(url),
                   !.pended = @ \cup {eid}]
  ELSE
    LET w0 == Report(w, eid, variation, type, orderValue)
        w1 == IF type = TypeVisit THEN RegisterTimers(w0, eid) ELSE w0
        experiment_vars ==
          [k |-> "json", eid |-> eid, variation |-> variation,
           conversion |-> IF type = TypeConversion THEN 1 ELSE 0,
           goals |-> IF type.type = "goal" THEN {type.goal} ELSE {},
           hasGoals |-> TRUE, skipped |-> FALSE]
    IN [w1 EXCEPT !.btab[eid] = experiment_vars,
                  !.showPage = IF Falsy(url) THEN TRUE ELSE @]

\* Mutation of abstConvert: a visitor without a stored record is reported as
\* converted.
abstConvert_Unrecorded(w, testId, orderValue) ==
  IF w.threw \/ testId = "" THEN w
  ELSE LET c == w.btab[testId] IN
    IF ~HasCookie(c) THEN Report(w, testId, "", TypeConversion, orderValue)
    ELSE IF ~IsJson(c) THEN [w EXCEPT !.threw = TRUE]
    ELSE IF c.conversion = 0
      THEN LET w1 == bt_experiment_w(w, testId, c.variation, TypeConversion,
                                     "", orderValue)
           IN [w1 EXCEPT !.btab[testId] = [c EXCEPT !.conversion = 1],
                         !.intervals = ClearInterval(@, IntervalsObject(testId))]
      ELSE NoteNoop(w, Handle(testId, 0))

\* Mutation of abstConvert: the test btab.conversion == 0 is left out.
abstConvert_Unchecked(w, testId, orderValue) ==
  IF w.threw \/ testId = "" THEN w
  ELSE LET c == w.btab[testId] IN
    IF ~HasCookie(c) THEN w
    ELSE IF ~IsJson(c) THEN [w EXCEPT !.threw = TRUE]
    ELSE LET w1 == bt_experiment_w(w, testId, c.variation, TypeConversion,
                                   "", orderValue)
         IN [w1 EXCEPT !.btab[testId] = [c EXCEPT !.conversion = 1],
                       !.intervals = ClearInterval(@, IntervalsObject(testId))]

abstConvert(w, testId, orderValue) ==
  IF w.threw \/ testId = "" THEN w
  ELSE LET c == w.btab[testId] IN
    IF ~HasCookie(c) THEN w
    ELSE IF ~IsJson(c) THEN [w EXCEPT !.threw = TRUE]
    ELSE IF c.conversion = 0
      THEN LET w1 == bt_experiment_w(w, testId, c.variation, TypeConversion,
                                     "", orderValue)
           IN [w1 EXCEPT !.btab[testId] = [c EXCEPT !.conversion = 1],
                         !.intervals = ClearInterval(@, IntervalsObject(testId))]
      ELSE NoteNoop(w, Handle(testId, 0))

\* Mutation of abstGoal: the test btab.conversion !== 1 is left out.
abstGoal_AfterConversion(w, testId, goal) ==
  IF w.threw \/ testId = "" THEN w
  ELSE LET c == w.btab[testId] IN
    IF ~HasCookie(c) THEN w
    ELSE IF ~IsJson(c) THEN [w EXCEPT !.threw = TRUE]
    ELSE IF c.hasGoals
      THEN LET w1 == bt_experiment_w(w, testId, c.variation,
                                     TypeGoal(goal), "", 1)
           IN [w1 EXCEPT !.btab[testId] = [c EXCEPT !.goals = @ \cup {goal}]]
      ELSE w

abstGoal(w, testId, goal) ==
  IF w.threw \/ testId = "" THEN w
  ELSE LET c == w.btab[testId] IN
    IF ~HasCookie(c) THEN w
    ELSE IF ~IsJson(c) THEN [w EXCEPT !.threw = TRUE]
    ELSE IF c.conversion # 1
      THEN IF c.hasGoals
        THEN LET fire == GoalsAt(c.goals, goal) # "0"
                 w1 == IF fire
                         THEN bt_experiment_w(w, testId, c.variation,
                                              TypeGoal(goal), "", 1)
                         ELSE w
             IN [w1 EXCEPT !.btab[testId] =
                             [c EXCEPT !.goals = IF fire THEN @ \cup {goal}
                                                 ELSE @]]
        ELSE w
      ELSE NoteNoop(w, Handle(testId, goal))

(***************************************************************************)
(* The document-ready handler, in the order of its statements.             *)
(***************************************************************************)
\* Mutation of next_page_visit_report: the stored value is not overwritten.
next_page_visit_report_Kept(w) ==
  LET setvisit == w.abSetVisit IN
  IF ~HasCookie(setvisit) THEN w
  ELSE IF IsJson(setvisit)
    THEN bt_experiment_w(w, setvisit.eid, setvisit.variation, setvisit.type,
                         "", 1)
    ELSE w

next_page_visit_report(w) ==
  LET setvisit == w.abSetVisit IN
  IF ~HasCookie(setvisit) THEN w
  ELSE LET w1 == IF IsJson(setvisit)
                   THEN bt_experiment_w(w, setvisit.eid, setvisit.variation,
                                        setvisit.type, "", 1)
                   \* JSON.parse("false").eid is undefined; a parse error is
                   \* caught
                   ELSE w
       IN [w1 EXCEPT !.abSetVisit = FalseCookie]

\* regex.test(page_url) for the pattern built from conversion_page_url
UrlMatches(pattern, page_url) == pattern = "*" \/ pattern = page_url

\* Mutation of StaticConversionStep: the id of the record is passed where its
\* variation is expected.
StaticConversionStep_WrongField(st, key) ==
  LET w == st.w
      detail == w.conversion_details[key]
      page_url == w.post_id
      hasRegex == Truthy(detail.conversion_page_url) /\ Truthy(page_url)
      skip == /\ ~hasRegex
              /\ ~(detail.conversion_page_url = page_url
                   /\ detail.conversion_page_url # "")
              /\ detail.conversion_page_id # w.post_id
      eid == IF hasRegex /\ ~UrlMatches(detail.conversion_page_url, page_url)
               THEN st.eid ELSE key
  IN IF w.threw \/ skip THEN st
     ELSE IF eid \notin DOMAIN w.btab \/ ~HasCookie(w.btab[eid])
       THEN [st EXCEPT !.eid = eid]
     ELSE IF ~IsJson(w.btab[eid])
       THEN [w |-> [w EXCEPT !.threw = TRUE], eid |-> eid]
     ELSE IF w.btab[eid].conversion = 1
       THEN [st EXCEPT !.eid = eid]
     ELSE LET conversionValue ==
                IF w.abConversionValue # 0 /\ detail.use_order_value
                  THEN w.abConversionValue ELSE 1
          IN [w |-> bt_experiment_w(w, eid, w.btab[eid].eid,
                                    TypeConversion, "", conversionValue),
              eid |-> eid]

\* One iteration of the conversion_details loop; eid is the variable declared
\* outside the loop, which keeps its value from one iteration to the next.
StaticConversionStep(st, key) ==
  LET w == st.w
      detail == w.conversion_details[key]
      page_url == w.post_id
      hasRegex == Truthy(detail.conversion_page_url) /\ Truthy(page_url)
      skip == /\ ~hasRegex
              /\ ~(detail.conversion_page_url = page_url
                   /\ detail.conversion_page_url # "")
              /\ detail.conversion_page_id # w.post_id
      eid == IF hasRegex /\ ~UrlMatches(detail.conversion_page_url, page_url)
               THEN st.eid ELSE key
  IN IF w.threw \/ skip THEN st
     ELSE IF eid \notin DOMAIN w.btab \/ ~HasCookie(w.btab[eid])
       THEN [st EXCEPT !.eid = eid]
     ELSE IF ~IsJson(w.btab[eid])
       THEN [w |-> [w EXCEPT !.threw = TRUE], eid |-> eid]
     ELSE IF w.btab[eid].conversion = 1
       THEN [st EXCEPT !.eid = eid]
     ELSE LET conversionValue ==
                IF w.abConversionValue # 0 /\ detail.use_order_value
                  THEN w.abConversionValue ELSE 1
          IN [w |-> bt_experiment_w(w, eid, w.btab[eid].variation,
                                    TypeConversion, "", conversionValue),
              eid |-> eid]

RECURSIVE StaticConversionsFrom(_, _)
StaticConversionsFrom(st, i) ==
  IF i > Len(ExpOrder) THEN st.w
  ELSE IF ExpOrder[i] \in DOMAIN st.w.conversion_details
    THEN StaticConversionsFrom(StaticConversionStep(st, ExpOrder[i]), i + 1)
    ELSE StaticConversionsFrom(st, i + 1)

StaticConversions(w) == StaticConversionsFrom([w |-> w, eid |-> "null"], 1)

abClickListener(w, experimentId, goalId) ==
  IF w.threw THEN w
  ELSE LET testCookie == w.btab[experimentId]
           frames == IF w.post_id \in w.page_markup.iframes
                       THEN {FALSE, TRUE} ELSE {FALSE}
           armed == [w EXCEPT !.listeners = @ \cup
                       {[eid |-> experimentId, goalId |-> goalId, frame |-> f] :
                          f \in frames}]
       IN IF ~HasCookie(testCookie) THEN armed
          ELSE IF ~IsJson(testCookie) THEN [w EXCEPT !.threw = TRUE]
          ELSE IF goalId = 0
            THEN IF testCookie.conversion = 1 THEN w ELSE armed
          \* testCookie.goals is undefined in a record without goals
          ELSE IF ~testCookie.hasGoals THEN [w EXCEPT !.threw = TRUE]
          ELSE IF GoalsAt(testCookie.goals, goalId) = "1" THEN w
          ELSE armed

\* elements with class ab-convert on the page: abstConvert(<their test id>);
\* elements with class ab-click-convert-<test id>: abClickListener(<test id>)
RECURSIVE MarkupConversionsFrom(_, _)
MarkupConversionsFrom(w, i) ==
  IF i > Len(ExpOrder) THEN w
  ELSE LET w1 == IF ExpOrder[i] \in w.page_markup.abConvert[w.post_id]
                   THEN abstConvert(w, ExpOrder[i], 1) ELSE w
           w2 == IF ExpOrder[i] \in w.page_markup.clickConvert[w.post_id]
                   THEN abClickListener(w1, ExpOrder[i], 0) ELSE w1
       IN MarkupConversionsFrom(w2, i + 1)

startTextWatcher(w, experimentId, goalId) ==
  IF w.threw THEN w
  ELSE [w EXCEPT !.intervals = @ \cup {Handle(experimentId, goalId)}]

\* One iteration of the goal loop of the setup of an experiment.
ArmGoal(w, experimentId, i) ==
  LET goal == w.bt_experiments[experimentId].goals[i]
      convstatus == w.btab[experimentId]
  IN IF w.threw THEN w
     ELSE IF goal.kind = "selector" THEN abClickListener(w, experimentId, i)
     ELSE IF goal.kind = "text"
       THEN IF ~HasCookie(convstatus) THEN startTextWatcher(w, experimentId, i)
            ELSE IF ~IsJson(convstatus) THEN [w EXCEPT !.threw = TRUE]
            ELSE IF convstatus.hasGoals
                    /\ GoalsAt(convstatus.goals, i) = "1" THEN w
            ELSE startTextWatcher(w, experimentId, i)
     ELSE IF goal.kind \in {"page", "url"}
       THEN IF goal.page = w.post_id THEN abstGoal(w, experimentId, i) ELSE w
     ELSE w

\* for (var i = 1; i < Object.keys(experiment['goals']).length; i++)
RECURSIVE ArmGoalsFrom(_, _, _)
ArmGoalsFrom(w, experimentId, i) ==
  IF i < Len(w.bt_experiments[experimentId].goals)
    THEN ArmGoalsFrom(ArmGoal(w, experimentId, i), experimentId, i + 1)
    ELSE w

\* ArmTextConversion without the look at the record
ArmTextConversion_Unchecked(w, experimentId) ==
  IF w.threw THEN w ELSE startTextWatcher(w, experimentId, 0)

ArmTextConversion(w, experimentId) ==
  LET convstatus == w.btab[experimentId] IN
  IF w.threw THEN w
  ELSE IF ~HasCookie(convstatus) THEN startTextWatcher(w, experimentId, 0)
  ELSE IF ~IsJson(convstatus) THEN [w EXCEPT !.threw = TRUE]
  ELSE IF convstatus.conversion = 1 THEN w
  ELSE startTextWatcher(w, experimentId, 0)

PageVariationIds(exp) ==
  [i \in 1..Len(exp.page_variations) |-> exp.page_variations[i].varId]

\* experiment.page_variations[varId]
PageVariationUrl(exp, varId) ==
  IF \E i \in 1..Len(exp.page_variations) : exp.page_variations[i].varId = varId
    THEN LET i == CHOOSE j \in 1..Len(exp.page_variations) :
                     exp.page_variations[j].varId = varId
         IN exp.page_variations[i].url
    ELSE Undefined

\* The body of jQuery.each(bt_experiments, ...) for one experiment.  The
\* result says whether the callback returned false, which ends the loop.
SetupExperiment(w, experimentId) ==
  LET experiment == w.bt_experiments[experimentId]
      onOrigin == experiment.test_type = "full_page"
                  /\ experiment.full_page_default_page = w.post_id
  IN
  IF Truthy(experiment.test_winner)
    THEN IF onOrigin
      THEN IF experiment.test_winner # w.post_id
        THEN IF PageVariationUrl(experiment, experiment.test_winner) = Undefined
          THEN [w |-> w, brk |-> TRUE]
          ELSE [w |-> [w EXCEPT !.location = abRedirectUrl(
                          PageVariationUrl(experiment, experiment.test_winner))],
                brk |-> TRUE]
        ELSE [w |-> [w EXCEPT !.showPage = TRUE,
                              !.shown[experimentId] = @ \cup {w.post_id}],
              brk |-> TRUE]
      ELSE [w |-> [w EXCEPT !.shown[experimentId] =
                              @ \cup {experiment.test_winner}],
            brk |-> FALSE]
    ELSE
      LET w1 == IF onOrigin
                  THEN [w EXCEPT !.redirectHandles = @ \cup {experimentId}]
                  ELSE w
          w2 == IF experiment.conversion_page = "selector"
                  THEN abClickListener(w1, experimentId, 0) ELSE w1
          w3 == ArmGoalsFrom(w2, experimentId, 1)
          w4 == IF experiment.conversion_page = "text"
                  THEN ArmTextConversion(w3, experimentId) ELSE w3
          w5 == IF experiment.conversion_page = "surecart-order-paid"
                   /\ ~w4.threw
                  THEN [w4 EXCEPT !.scListeners = @ \cup {experimentId}]
                  ELSE w4
      IN [w |-> w5, brk |-> FALSE]

RECURSIVE SetupFrom(_, _)
SetupFrom(w, i) ==
  IF i > Len(ExpOrder) \/ w.threw THEN w
  ELSE IF ExpOrder[i] \in DOMAIN w.bt_experiments
    THEN LET r == SetupExperiment(w, ExpOrder[i])
         IN IF r.brk THEN r.w ELSE SetupFrom(r.w, i + 1)
    ELSE SetupFrom(w, i + 1)

(***************************************************************************)
(* Assignment: the loop over current_exp.                                  *)
(***************************************************************************)
\* Math.floor(Math.random() * (max - min + 1)) + min with Math.random() = u/RandRes
getRandomInt(min, max, u) == ((u * (max - min + 1)) \div RandRes) + min

CssVariation(i) == <<"test-css-1", "test-css-2", "test-css-3">>[i]

\* current_exp[experimentId]: the distinct bt-variation values of the elements
\* of the experiment on the page, or the generated names of a css test
Variations(w, experimentId) ==
  LET exp == w.bt_experiments[experimentId] IN
  IF exp.test_type = "css_test"
    THEN [i \in 1..exp.css_test_variations |-> CssVariation(i)]
    ELSE exp.markup[w.post_id] \o
         (IF experimentId \in w.redirectHandles
            THEN <<exp.full_page_default_page>> \o PageVariationIds(exp)
            ELSE << >>)

InCurrentExp(w, experimentId) ==
  \/ w.bt_experiments[experimentId].test_type = "css_test"
  \/ Variations(w, experimentId) # << >>

\* exp_redirect[experimentId][variation]: the bt-url attribute of the element
RedirectUrl(w, experimentId, variation) ==
  IF experimentId \in w.redirectHandles
    THEN PageVariationUrl(w.bt_experiments[experimentId], variation)
    ELSE Undefined

Range(seq) == {seq[i] : i \in 1..Len(seq)}

defaultNames == {"original", "one", "1", "default", "standard", "a", "control"}

\* addClass('bt-show-variation') on the elements of a variation, or the class
\* of a css variation on the body; no element matches an empty name
AddShown(w, eid, variation) ==
  IF Falsy(variation) THEN w ELSE [w EXCEPT !.shown[eid] = @ \cup {variation}]

\* Mutation of skippedCookie: the record is written with conversion 0.
skippedCookie_Open(w, eid, btv) ==
  [w EXCEPT !.btab[eid] = [k |-> "json", eid |-> eid, variation |-> btv,
                           conversion |-> 0, goals |-> {}, hasGoals |-> FALSE,
                           skipped |-> TRUE]]

skippedCookie(w, eid, btv) ==
  [w EXCEPT !.btab[eid] = [k |-> "json", eid |-> eid, variation |-> btv,
                           conversion |-> 1, goals |-> {}, hasGoals |-> FALSE,
                           skipped |-> TRUE]]

\* The variation showSkippedVisitorDefault reveals for an on-page test: the
\* last element with a canonical control name, else the first element.
SkippedDefault(elements) ==
  IF \E i \in 1..Len(elements) : elements[i] \in defaultNames
    THEN elements[CHOOSE i \in 1..Len(elements) :
                    /\ elements[i] \in defaultNames
                    /\ \A j \in (i+1)..Len(elements) :
                         elements[j] \notin defaultNames]
    ELSE IF elements = << >> THEN Undefined ELSE elements[1]

showSkippedVisitorDefault(w, eid, createCookie) ==
  LET exp == w.bt_experiments[eid]
      url == PageVariationUrl(exp, exp.test_winner)
      winnerRedirect == exp.test_winner # "" /\ exp.test_type = "full_page"
                        /\ url # Undefined
      winnerCss == exp.test_winner # "" /\ exp.test_type = "css_test"
      w1 == IF exp.test_winner # "" /\ exp.test_type = "full_page"
              THEN [w EXCEPT !.showPage = TRUE] ELSE w
      btv == SkippedDefault(exp.markup[w.post_id])
  IN IF w.threw THEN w
     ELSE IF winnerRedirect THEN [w EXCEPT !.location = abRedirectUrl(url)]
     ELSE IF winnerCss THEN AddShown(w, eid, exp.test_winner)
     ELSE IF exp.test_type = "full_page"
       THEN LET w2 == AddShown([w1 EXCEPT !.showPage = TRUE], eid,
                               exp.full_page_default_page)
            IN IF createCookie
                 THEN skippedCookie(w2, eid, exp.full_page_default_page)
                 ELSE w2
     ELSE IF exp.test_type = "css_test"
       THEN LET w2 == AddShown(w1, eid, CssVariation(1))
            IN IF createCookie THEN skippedCookie(w2, eid, CssVariation(1))
               ELSE w2
     ELSE LET w2 == AddShown(w1, eid, btv)
          IN IF createCookie THEN skippedCookie(w2, eid, btv) ELSE w2

\* bt_getQueryVariable(key) on the query string of the page: "" stands for
\* false (the key is absent), otherwise the value of the key.
DeviceSize(width) ==
  IF width > 767 THEN "desktop" ELSE IF width > 479 THEN "tablet" ELSE "mobile"

TargetVisitor(exp, ctx) ==
  LET byQuery == IF exp.url_query.key = "" THEN TRUE
                 ELSE IF exp.url_query.value = ""
                   THEN ctx.query # ""
                   ELSE ctx.query = exp.url_query.value
  IN IF byQuery /\ exp.target_option_device_size # {"all"}
       THEN DeviceSize(ctx.width) \in exp.target_option_device_size
       ELSE byQuery

\* Mutation of RandomVariation: the free version draws among all variations.
RandomVariation_Uncapped(w, experimentId, d) ==
  LET exp == w.bt_experiments[experimentId]
      variations == Variations(w, experimentId)
      randVar == IF exp.test_type = "css_test"
                   THEN getRandomInt(1, exp.css_test_variations, d.u1) - 1
                   ELSE getRandomInt(1, Len(variations), d.u1) - 1
  IN IF randVar + 1 \in 1..Len(variations)
       THEN variations[randVar + 1] ELSE Undefined

\* A variation drawn at random (a visitor without stored value)
RandomVariation(w, experimentId, d) ==
  LET exp == w.bt_experiments[experimentId]
      variations == Variations(w, experimentId)
      randVar0 == IF exp.test_type = "css_test"
                    THEN getRandomInt(1, exp.css_test_variations, d.u1) - 1
                    ELSE getRandomInt(1, Len(variations), d.u1) - 1
      randVar == IF w.btab_vars.is_free /\ Len(variations) > 2
                   THEN getRandomInt(0, 1, d.u2) ELSE randVar0
  IN IF randVar + 1 \in 1..Len(variations)
       THEN variations[randVar + 1] ELSE Undefined

\* Mutation of ExperimentVariation: a variation is drawn on every page load.
ExperimentVariation_Redraw(w, experimentId, d) ==
  RandomVariation(w, experimentId, d)

\* experimentVariation of the assignment loop: drawn when there is no stored
\* value, otherwise the variation of the stored record ('' when the stored
\* value does not parse)
ExperimentVariation(w, experimentId, d) ==
  LET c == w.btab[experimentId] IN
  IF ~HasCookie(c) THEN RandomVariation(w, experimentId, d)
  ELSE IF IsJson(c) THEN c.variation ELSE ""

\* Mutation of ResolveExperiment: a visitor with a stored record is reported
\* as a visit again.
ResolveExperiment_Revisit(w, experimentId, d, ctx) ==
  LET exp == w.bt_experiments[experimentId]
      variations == Variations(w, experimentId)
      c == w.btab[experimentId]
      isCss == exp.test_type = "css_test"
      experimentVariation == ExperimentVariation(w, experimentId, d)
      hasElement == experimentVariation \in Range(variations)
      wCss == IF isCss THEN AddShown(w, experimentId, experimentVariation)
              ELSE w
      wShown == IF hasElement
                  THEN AddShown(w, experimentId, experimentVariation) ELSE wCss
      redirect_url == RedirectUrl(w, experimentId, experimentVariation)
      targetPercentage == IF LooseEqualsEmptyString(exp.target_percentage)
                            THEN 100 ELSE exp.target_percentage.n
      percentage == getRandomInt(1, 100, d.u3)
  IN
  IF w.threw THEN w
  ELSE IF Truthy(exp.test_winner) THEN w
  ELSE IF ~exp.is_current_user_track
    THEN showSkippedVisitorDefault(w, experimentId, FALSE)
  ELSE IF exp.test_status # "publish"
    THEN showSkippedVisitorDefault(w, experimentId, FALSE)
  ELSE IF HasCookie(c)
    THEN IF ~IsJson(c) THEN [wCss EXCEPT !.threw = TRUE]
         ELSE bt_experiment_w([wShown EXCEPT !.showPage = TRUE], experimentId,
                              experimentVariation, TypeVisit, redirect_url, 1)
  ELSE IF ~TargetVisitor(exp, ctx)
    THEN showSkippedVisitorDefault(wCss, experimentId, FALSE)
  ELSE IF targetPercentage < percentage
    THEN showSkippedVisitorDefault(wCss, experimentId, TRUE)
  ELSE IF ~isCss /\ ~hasElement
    THEN showSkippedVisitorDefault(wCss, experimentId, FALSE)
  ELSE bt_experiment_w(wShown, experimentId, experimentVariation, TypeVisit,
                       redirect_url, 1)

\* Mutation of ResolveExperiment: the tests of is_current_user_track and
\* test_status are left out.
ResolveExperiment_Ungated(w, experimentId, d, ctx) ==
  LET exp == w.bt_experiments[experimentId]
      variations == Variations(w, experimentId)
      c == w.btab[experimentId]
      isCss == exp.test_type = "css_test"
      experimentVariation == ExperimentVariation(w, experimentId, d)
      hasElement == experimentVariation \in Range(variations)
      \* a css variation is put on the body before any gate is evaluated
      wCss == IF isCss THEN AddShown(w, experimentId, experimentVariation)
              ELSE w
      wShown == IF hasElement
                  THEN AddShown(w, experimentId, experimentVariation) ELSE wCss
      redirect_url == RedirectUrl(w, experimentId, experimentVariation)
      targetPercentage == IF LooseEqualsEmptyString(exp.target_percentage)
                            THEN 100 ELSE exp.target_percentage.n
      percentage == getRandomInt(1, 100, d.u3)
  IN
  IF w.threw THEN w
  ELSE IF Truthy(exp.test_winner) THEN w
  ELSE IF HasCookie(c)
    THEN IF ~IsJson(c) THEN [wCss EXCEPT !.threw = TRUE]
         ELSE IF Truthy(redirect_url) /\ ~w.btab_vars.is_preview
           THEN [wCss EXCEPT !.location = abRedirectUrl(redirect_url)]
           ELSE [wShown EXCEPT !.showPage = TRUE]
  ELSE IF ~TargetVisitor(exp, ctx)
    THEN showSkippedVisitorDefault(wCss, experimentId, FALSE)
  ELSE IF targetPercentage < percentage
    THEN showSkippedVisitorDefault(wCss, experimentId, TRUE)
  ELSE IF ~isCss /\ ~hasElement
    THEN showSkippedVisitorDefault(wCss, experimentId, FALSE)
  ELSE bt_experiment_w(wShown, experimentId, experimentVariation, TypeVisit,
                       redirect_url, 1)

\* The body of jQuery.each(current_exp, ...) for one experiment; d holds the
\* values Math.random() returns to this iteration.
ResolveExperiment(w, experimentId, d, ctx) ==
  LET exp == w.bt_experiments[experimentId]
      variations == Variations(w, experimentId)
      c == w.btab[experimentId]
      isCss == exp.test_type = "css_test"
      experimentVariation == ExperimentVariation(w, experimentId, d)
      hasElement == experimentVariation \in Range(variations)
      \* a css variation is put on the body before any gate is evaluated
      wCss == IF isCss THEN AddShown(w, experimentId, experimentVariation)
              ELSE w
      wShown == IF hasElement
                  THEN AddShown(w, experimentId, experimentVariation) ELSE wCss
      redirect_url == RedirectUrl(w, experimentId, experimentVariation)
      targetPercentage == IF LooseEqualsEmptyString(exp.target_percentage)
                            THEN 100 ELSE exp.target_percentage.n
      percentage == getRandomInt(1, 100, d.u3)
  IN
  IF w.threw THEN w
  ELSE IF Truthy(exp.test_winner) THEN w
  ELSE IF ~exp.is_current_user_track
    THEN showSkippedVisitorDefault(w, experimentId, FALSE)
  ELSE IF exp.test_status # "publish"
    THEN showSkippedVisitorDefault(w, experimentId, FALSE)
  ELSE IF HasCookie(c)
    THEN IF ~IsJson(c) THEN [wCss EXCEPT !.threw = TRUE]
         ELSE IF Truthy(redirect_url) /\ ~w.btab_vars.is_preview
           THEN [wCss EXCEPT !.location = abRedirectUrl(redirect_url)]
           ELSE [wShown EXCEPT !.showPage = TRUE]
  ELSE IF ~TargetVisitor(exp, ctx)
    THEN showSkippedVisitorDefault(wCss, experimentId, FALSE)
  ELSE IF targetPercentage < percentage
    THEN showSkippedVisitorDefault(wCss, experimentId, TRUE)
  ELSE IF ~isCss /\ ~hasElement
    THEN showSkippedVisitorDefault(wCss, experimentId, FALSE)
  ELSE bt_experiment_w(wShown, experimentId, experimentVariation, TypeVisit,
                       redirect_url, 1)

RECURSIVE ResolveFrom(_, _, _, _)
ResolveFrom(w, i, draws, ctx) ==
  IF i > Len(ExpOrder) \/ w.threw THEN w
  ELSE IF ExpOrder[i] \in DOMAIN w.bt_experiments
          /\ InCurrentExp(w, ExpOrder[i])
    THEN ResolveFrom(ResolveExperiment(w, ExpOrder[i], draws[ExpOrder[i]], ctx),
                     i + 1, draws, ctx)
    ELSE ResolveFrom(w, i + 1, draws, ctx)

(***************************************************************************)
(* Activity clock and countdown timers.                                    *)
(***************************************************************************)
\* Mutation of userActiveNow: no new timeout is created.
userActiveNow_NoDeadline(w) ==
  [w EXCEPT !.scrollDirty = FALSE, !.abactive = TRUE, !.timeoutTimer = FALSE]

userActiveNow(w) ==
  [w EXCEPT !.scrollDirty = FALSE, !.abactive = TRUE, !.timeoutTimer = TRUE]

\* Object.entries(window.abst.timer) lists the conversion timers (keys that
\* are experiment ids) before the 'goal-...' keys.
TimerOrder ==
  [i \in 1..Len(ExpOrder) |-> Handle(ExpOrder[i], 0)] \o
  [i \in 1..(GoalSlots * Len(ExpOrder)) |->
     Handle(ExpOrder[((i - 1) \div GoalSlots) + 1], ((i - 1) % GoalSlots) + 1)]

\* Mutation of TimerStep: the timer calls at every value below 1.
TimerStep_BelowOne(w, index) ==
  LET v == IF w.timer[index] > -1 THEN w.timer[index] - 1 ELSE w.timer[index]
      tracked == index \in DOMAIN w.ticked
      w1 == [w EXCEPT !.timer[index] = v,
                      !.ticked = IF tracked /\ @[index] <= TimerSeconds(w, index)
                                   THEN [@ EXCEPT ![index] = @ + 1] ELSE @]
      w2 == IF tracked THEN [w1 EXCEPT !.fired[index] = @ + 1] ELSE w1
  IN IF v <= 0
       THEN IF index.goalId # 0 THEN abstGoal(w2, index.eid, index.goalId)
            ELSE abstConvert(w2, index.eid, 1)
       ELSE w1

\* Mutation of TimerStep: the timer is decremented at every value.
TimerStep_Unfloored(w, index) ==
  LET v == w.timer[index] - 1
      tracked == index \in DOMAIN w.ticked
      w1 == [w EXCEPT !.timer[index] = v,
                      !.ticked = IF tracked /\ @[index] <= TimerSeconds(w, index)
                                   THEN [@ EXCEPT ![index] = @ + 1] ELSE @]
      w2 == IF tracked THEN [w1 EXCEPT !.fired[index] = @ + 1] ELSE w1
  IN IF v = 0
       THEN IF index.goalId # 0 THEN abstGoal(w2, index.eid, index.goalId)
            ELSE abstConvert(w2, index.eid, 1)
       ELSE w1

\* The forEach callback of abstOneSecond for one entry.
TimerStep(w, index) ==
  LET v == IF w.timer[index] > -1 THEN w.timer[index] - 1 ELSE w.timer[index]
      tracked == index \in DOMAIN w.ticked
      w1 == [w EXCEPT !.timer[index] = v,
                      !.ticked = IF tracked /\ @[index] <= TimerSeconds(w, index)
                                   THEN [@ EXCEPT ![index] = @ + 1] ELSE @]
      w2 == IF tracked THEN [w1 EXCEPT !.fired[index] = @ + 1] ELSE w1
  IN IF v = 0
       THEN IF index.goalId # 0 THEN abstGoal(w2, index.eid, index.goalId)
            ELSE abstConvert(w2, index.eid, 1)
       ELSE w1

\* forEach over entries, the array Object.entries returned before the first
\* callback ran.
RECURSIVE TimerStepsFrom(_, _, _)
TimerStepsFrom(w, entries, i) ==
  IF i > Len(entries) \/ w.threw THEN w
  ELSE TimerStepsFrom(TimerStep(w, entries[i]), entries, i + 1)

abstOneSecond(w) ==
  IF DOMAIN w.timer # {}
    THEN LET present(h) == h \in DOMAIN w.timer
             w1 == TimerStepsFrom(w, SelectSeq(TimerOrder, present), 1)
         IN IF w1.threw THEN w1
            ELSE [w1 EXCEPT !.absttimer = [k |-> "json", timer |-> w1.timer]]
    ELSE w

\* Mutation of timerInterval: abstOneSecond is called whatever abactive is.
timerInterval_Always(w) ==
  LET w1 == IF w.scrollDirty \/ w.mouseDirty
              THEN userActiveNow([w EXCEPT !.scrollDirty = FALSE,
                                           !.mouseDirty = FALSE])
              ELSE w
  IN IF w1.abactive THEN abstOneSecond(w1)
     ELSE abstOneSecond([w1 EXCEPT !.idled = TRUE])

\* The callback of window.abst.timerInterval.
timerInterval(w) ==
  LET w1 == IF w.scrollDirty \/ w.mouseDirty
              THEN userActiveNow([w EXCEPT !.scrollDirty = FALSE,
                                           !.mouseDirty = FALSE])
              ELSE w
  IN IF w1.abactive THEN abstOneSecond(w1) ELSE [w1 EXCEPT !.idled = TRUE]

(***************************************************************************)
(* The configurations of the model: each is a site with its experiments.   *)
(***************************************************************************)
NoPageMarkup ==
  [pages |-> {"p1"}, abConvert |-> [p \in Pages |-> {}],
   clickConvert |-> [p \in Pages |-> {}], iframes |-> {}]

PaidVars == [is_preview |-> FALSE, is_free |-> FALSE]

NoDetails == [e \in {} |-> 0]

Site(exps, details, pm, win) ==
  [ bt_experiments |-> exps, conversion_details |-> details,
    btab_vars |-> PaidVars, page_markup |-> pm,
    may_win |-> [e \in Eids |-> IF e \in DOMAIN win THEN win[e] ELSE {}] ]

One(exp) == [e \in {"e1"} |-> exp]

\* On-page test on p1 with a click conversion, a click goal and a text goal,
\* listed before a third goal; the owner may declare b the winner.
SiteClick ==
  Site(One([BaseExp EXCEPT !.markup = OnP1,
                           !.goals = <<SelectorGoal, TextGoal, SelectorGoal>>]),
       NoDetails, NoPageMarkup, One({"b"}))

\* On-page test on p1 that converts on page p3, with two click goals.
SiteStatic ==
  Site(One([BaseExp EXCEPT !.markup = OnP1, !.conversion_page = "page",
                           !.goals = <<SelectorGoal, SelectorGoal>>]),
       One([conversion_page_url |-> "", conversion_page_id |-> "p3",
            use_order_value |-> FALSE]),
       [NoPageMarkup EXCEPT !.pages = {"p1", "p3"}], NoDetails)

\* On-page test on p1 converting after 2 active seconds, a goal after 1.
SiteTime ==
  Site(One([BaseExp EXCEPT !.markup = OnP1, !.conversion_page = "time",
                           !.conversion_time = 2,
                           !.target_percentage = EmptyString,
                           !.goals = <<TimeGoal(1), SelectorGoal>>]),
       NoDetails, NoPageMarkup, NoDetails)

\* Full-page test of p1 against p2, converting on page p3.
SiteFullPage ==
  Site(One([BaseExp EXCEPT !.test_type = "full_page",
                           !.full_page_default_page = "p1",
                           !.page_variations = <<[varId |-> "p2", url |-> "p2"]>>,
                           !.conversion_page = "page"]),
       One([conversion_page_url |-> "p3", conversion_page_id |-> "",
            use_order_value |-> FALSE]),
       [NoPageMarkup EXCEPT !.pages = {"p1", "p2", "p3"}], NoDetails)

\* Css test with two variations shown to 0 percent of the visitors, with
\* a text conversion.
SiteTargetZero ==
  Site(One([BaseExp EXCEPT !.test_type = "css_test",
                           !.css_test_variations = 2,
                           !.conversion_page = "text",
                           !.target_percentage = JsNumber(0)]),
       NoDetails, NoPageMarkup, NoDetails)

\* Css test shown to half of the visitors, converting on a paid order.
SiteOrder ==
  Site(One([BaseExp EXCEPT !.test_type = "css_test",
                           !.css_test_variations = 2,
                           !.conversion_page = "surecart-order-paid",
                           !.use_order_value = TRUE,
                           !.target_percentage = JsNumber(50)]),
       NoDetails, NoPageMarkup, NoDetails)

\* A full-page test of p1 whose winner is p1 itself, listed before an on-page
\* test of which the owner may declare b the winner.
SiteWinners ==
  Site([e \in {"e1", "e2"} |->
          IF e = "e1"
            THEN [BaseExp EXCEPT !.test_type = "full_page",
                                 !.full_page_default_page = "p1",
                                 !.page_variations =
                                    <<[varId |-> "p2", url |-> "p2"]>>,
                                 !.test_winner = "p1"]
            ELSE [BaseExp EXCEPT !.markup = OnP1]],
       NoDetails, NoPageMarkup, [e \in {"e2"} |-> {"b"}])

\* Two full-page tests of the same page p1, against p2 and against p3.
SiteTwoFullPage ==
  Site([e \in {"e1", "e2"} |->
          [BaseExp EXCEPT !.test_type = "full_page",
                          !.full_page_default_page = "p1",
                          !.page_variations =
                             IF e = "e1" THEN <<[varId |-> "p2", url |-> "p2"]>>
                             ELSE <<[varId |-> "p3", url |-> "p3"]>>,
                          !.conversion_page = "page"]],
       NoDetails, [NoPageMarkup EXCEPT !.pages = {"p1", "p2", "p3"}], NoDetails)

\* On-page test on p1 for the visitors who come with the query key v on a
\* desktop.
SiteAudience ==
  Site(One([BaseExp EXCEPT !.markup = OnP1, !.conversion_page = "page",
                           !.url_query = [key |-> "v", value |-> ""],
                           !.target_option_device_size = {"desktop"}]),
       NoDetails, NoPageMarkup, NoDetails)

\* An on-page test on p1 that is not published, with a click conversion and
\* a click goal, and a css test whose visitor is not tracked.
SiteGated ==
  Site([e \in {"e1", "e2"} |->
          IF e = "e1"
            THEN [BaseExp EXCEPT !.markup = OnP1, !.test_status = "draft",
                                 !.goals = <<SelectorGoal, SelectorGoal>>]
            ELSE [BaseExp EXCEPT !.test_type = "css_test",
                                 !.css_test_variations = 2,
                                 !.conversion_page = "text",
                                 !.is_current_user_track = FALSE]],
       NoDetails, NoPageMarkup, NoDetails)

FreeVars == [is_preview |-> FALSE, is_free |-> TRUE]

\* On-page test with three variations on p1 under the free version.
SiteFree ==
  [Site(One([BaseExp EXCEPT !.markup = [NoMarkup EXCEPT !["p1"] =
                                          <<"a", "b", "c">>],
                            !.conversion_page = "page"]),
        NoDetails, NoPageMarkup, NoDetails)
   EXCEPT !.btab_vars = FreeVars]

\* Css test without variations, shown to half of the visitors.
SiteNoVariations ==
  Site(One([BaseExp EXCEPT !.test_type = "css_test",
                           !.css_test_variations = 0,
                           !.conversion_page = "page",
                           !.target_percentage = JsNumber(50)]),
       NoDetails, NoPageMarkup, NoDetails)

\* A css test shown to half of the visitors, with two click goals, listed
\* before an on-page test on p1 with a click conversion.
SiteTwoTests ==
  Site([e \in {"e1", "e2"} |->
          IF e = "e1"
            THEN [BaseExp EXCEPT !.test_type = "css_test",
                                 !.css_test_variations = 2,
                                 !.conversion_page = "page",
                                 !.goals = <<SelectorGoal, SelectorGoal>>,
                                 !.target_percentage = JsNumber(50)]
            ELSE [BaseExp EXCEPT !.markup = OnP1]],
       NoDetails, NoPageMarkup, NoDetails)

\* On-page test on p1 converting after 2 active seconds; an element of p2
\* carries the classes ab-convert and ab-e1.
SiteTimeMarkup ==
  Site(One([BaseExp EXCEPT !.markup = OnP1, !.conversion_page = "time",
                           !.conversion_time = 2]),
       NoDetails,
       [NoPageMarkup EXCEPT !.pages = {"p1", "p2"},
                            !.abConvert["p2"] = {"e1"}],
       NoDetails)

\* On-page test on p1 with a text conversion; an element of p1 has the
\* class ab-click-convert-e1.
SiteTextClick ==
  Site(One([BaseExp EXCEPT !.markup = OnP1, !.conversion_page = "text"]),
       NoDetails, [NoPageMarkup EXCEPT !.clickConvert["p1"] = {"e1"}],
       NoDetails)

\* One experiment with a click goal and a goal on the page of the test, on a
\* page that embeds a frame of the same origin
SiteFrame ==
  Site(One([BaseExp EXCEPT !.markup = OnP1, !.conversion_page = "page",
                           !.goals = <<SelectorGoal, PageGoal("p1"),
                                       SelectorGoal>>]),
       NoDetails, [NoPageMarkup EXCEPT !.iframes = {"p1"}], NoDetails)

Sites == {SiteClick, SiteStatic, SiteTime, SiteFullPage, SiteTargetZero,
          SiteOrder, SiteWinners, SiteTwoFullPage, SiteAudience, SiteGated,
          SiteFree, SiteNoVariations, SiteTwoTests, SiteTimeMarkup,
          SiteTextClick, SiteFrame}

(***************************************************************************)
(* Initial state: a visitor without stored values, before the first page   *)
(* load.                                                                   *)
(***************************************************************************)
\* An update given to setState: a value, or a function of the previous state
Direct(v) == [fn |-> "value", v |-> v]

Functional(f) == [fn |-> f, v |-> 0]

\* const [getState, setState, subscribe, destroy] = useState(0); microtask
\* says that a call of flushQueue is waiting in the microtask queue
NewUseState ==
  [state |-> 0, listeners |-> {}, updateQueue |-> << >>, isFlushing |-> FALSE,
   microtask |-> FALSE]

\* The subscribers: one that logs the state, one that calls setState(0)
Subscribers == {"log", "reset"}

NoFlush ==
  [calls |-> << >>, destroyed |-> FALSE, applied |-> 0, before |-> 0,
   notified |-> [l \in Subscribers |-> << >>]]

\* const [getState, setState, subscribe] = createState(0)
NewCreateState ==
  [listeners |-> {}, subscribed |-> << >>, called |-> << >>,
   expected |-> << >>]

\* The tabs in which the visitor has the page open
Tabs == {1, 2}

\* A tab in which no call of abstConvert or abstGoal is in progress
IdleTab ==
  [pc |-> "idle", eid |-> "", goalId |-> 0, btab |-> NoCookie, calls |-> 0]

InitStore(values) ==
  /\ \E site \in Sites :
       /\ bt_experiments = site.bt_experiments
       /\ conversion_details = site.conversion_details
       /\ btab_vars = site.btab_vars
       /\ page_markup = site.page_markup
       /\ may_win = site.may_win
  /\ btab \in {f \in [Eids -> values] :
               \A e \in Eids \ DOMAIN bt_experiments : f[e] = NoCookie}
  /\ abSetVisit = NoCookie
  /\ absttimer = NoCookie
  /\ post_id = NoPage
  /\ timer = EmptyMap
  /\ abactive = TRUE
  /\ timeoutTimer = FALSE
  /\ scrollDirty = FALSE
  /\ mouseDirty = TRUE
  /\ intervals = {}
  /\ listeners = {}
  /\ scListeners = {}
  /\ abConversionValue = 1
  /\ shown = [e \in Eids |-> {}]
  /\ showPage = FALSE
  /\ location = ""
  /\ reports = EmptyBag
  /\ loads = 0
  /\ ticked = EmptyMap
  /\ fired = EmptyMap
  /\ noops = EmptyMap
  /\ context = NoContext
  /\ pended = {}
  /\ readyThrew = FALSE
  /\ idled = FALSE
  /\ tabs = [t \in Tabs |-> IdleTab]
  /\ useState = NewUseState
  /\ flushed = NoFlush
  /\ created = NewCreateState

\* A visitor without stored values
Init == InitStore({NoCookie})

\* A visitor who comes with no stored value or with one that does not parse
InitStored == InitStore({NoCookie, Malformed})

ReportsBounded(w) ==
  \A ev \in BagToSet(w.reports) : CopiesIn(ev, w.reports) <= MaxReports

Step(w) == ReportsBounded(w) /\ Commit(w)

(***************************************************************************)
(* Actions: one per handler.                                               *)
(***************************************************************************)
\* Math.random() values an iteration of the assignment loop may consume
Draws == [u1 : 0..(RandRes - 1), u2 : 0..(RandRes - 1), u3 : 0..(RandRes - 1)]

NoDraw == [u1 |-> 0, u2 |-> 0, u3 |-> 0]

\* Random numbers are only drawn for an experiment without stored value, and
\* the second one only under is_free.
DrawsOf(e) ==
  IF e \notin DOMAIN bt_experiments \/ HasCookie(btab[e]) THEN {NoDraw}
  ELSE {d \in Draws : btab_vars.is_free \/ d.u2 = 0}

Queries == {"", "v"}

Widths == {400, 1000}

\* Query string and window width of a page load; they are only read by the
\* audience rule of an experiment.
Contexts ==
  IF \E e \in DOMAIN bt_experiments :
       \/ bt_experiments[e].url_query # NoQuery
       \/ bt_experiments[e].target_option_device_size # {"all"}
    THEN [query : Queries, width : Widths]
    ELSE {NoContext}

\* The script is loaded on a page: the globals of lines 1-12 are initialised
\* and the document-ready handler runs up to the assignment loop.
PreResolve(w, p) ==
  LET w0 == [w EXCEPT !.post_id = p,
                      !.timer = IF IsJson(w.absttimer) THEN w.absttimer.timer
                                ELSE EmptyMap,
                      !.abactive = TRUE, !.timeoutTimer = FALSE,
                      !.scrollDirty = FALSE, !.mouseDirty = TRUE,
                      !.intervals = {}, !.listeners = {}, !.scListeners = {},
                      !.abConversionValue = 1,
                      !.shown = [e \in Eids |-> {}], !.showPage = FALSE,
                      !.location = "", !.loads = @ + 1,
                      !.ticked = EmptyMap, !.fired = EmptyMap,
                      !.pended = {}, !.readyThrew = FALSE,
                      !.idled = FALSE]
      w1 == next_page_visit_report(w0)
      w2 == StaticConversions(w1)
      w3 == MarkupConversionsFrom(w2, 1)
  IN SetupFrom(w3, 1)

\* A page load: the document-ready handler runs to its end; the assignment
\* loop of lines 421-608 consumes the values Math.random() returns.
LoadPage(p) ==
  /\ p \in page_markup.pages
  /\ loads < MaxLoads
  /\ LET w == PreResolve(World, p) IN
     \E d1 \in DrawsOf(ExpOrder[1]), d2 \in DrawsOf(ExpOrder[2]),
        ctx \in Contexts :
       LET r == ResolveFrom([w EXCEPT !.context = ctx], 1,
                            [e \in Eids |-> IF e = ExpOrder[1] THEN d1 ELSE d2],
                            ctx)
       IN Step([r EXCEPT !.readyThrew = r.threw])

Tick ==
  /\ post_id # NoPage
  /\ Step(timerInterval(World))

\* mousemove stores event.pageX, which differs from the sentinel -2 and from
\* the position sampled last; a pointer that is back at the sampled position
\* when the interval callback runs is, to the script, a pointer that did not
\* move.
MouseMove ==
  /\ post_id # NoPage
  /\ mouseDirty' = TRUE
  /\ UNCHANGED << bt_experiments, conversion_details, btab_vars, page_markup,
                  btab, abSetVisit, absttimer, post_id, timer, abactive,
                  timeoutTimer, scrollDirty, intervals, listeners, scListeners,
                  abConversionValue, shown, showPage, location, reports, loads,
                  ticked, fired, noops, may_win, context, pended,
                  readyThrew, idled, tabs,
                  useState, flushed, created >>

Scroll ==
  /\ post_id # NoPage
  /\ \E dirty \in {TRUE, ~scrollDirty} : scrollDirty' = dirty
  /\ UNCHANGED << bt_experiments, conversion_details, btab_vars, page_markup,
                  btab, abSetVisit, absttimer, post_id, timer, abactive,
                  timeoutTimer, mouseDirty, intervals, listeners, scListeners,
                  abConversionValue, shown, showPage, location, reports, loads,
                  ticked, fired, noops, may_win, context, pended,
                  readyThrew, idled, tabs,
                  useState, flushed, created >>

\* mousedown, keydown or touchstart on the body
KeyDown ==
  /\ post_id # NoPage
  /\ Step(userActiveNow(World))

abstActiveTimeout ==
  /\ timeoutTimer
  /\ Step([World EXCEPT !.abactive = FALSE, !.timeoutTimer = FALSE])

\* The listener abClickListener added for (eid, goalId) gets an event whose
\* target matches the selector.
\* The event listener abClickListener adds: the one on the document completes
\* its goal or converts, the one on the document of a frame converts.
ClickHandler(w, l) ==
  IF l.frame THEN abstConvert(w, l.eid, 1)
  ELSE IF l.goalId > 0 THEN abstGoal(w, l.eid, l.goalId)
  ELSE abstConvert(w, l.eid, 1)

Click(l) ==
  /\ l \in listeners
  /\ Step(ClickHandler(World, l))

\* A tick of the interval of startTextWatcher that finds the word.
TextFound(h) ==
  /\ h \in intervals
  /\ LET w1 == IF h.goalId = 0 THEN abstConvert(World, h.eid, 1)
               ELSE abstGoal(World, h.eid, h.goalId)
     IN Step(IF w1.threw THEN w1
             ELSE [w1 EXCEPT !.intervals = ClearInterval(@, h)])

Amounts == {0, 5}

\* The scOrderPaid listener of an experiment; amount 0 stands for an event
\* without amount_due.
scOrderPaidListener(w, e, amount) ==
  IF amount # 0
    THEN LET w1 == IF w.bt_experiments[e].use_order_value
                     THEN [w EXCEPT !.abConversionValue = amount]
                     ELSE w
         IN abstConvert(w1, e, w1.abConversionValue)
    ELSE w

scOrderPaid(e, amount) ==
  /\ e \in scListeners
  /\ Step(scOrderPaidListener(World, e, amount))

\* The site owner declares a winner; the next page load reads it.
DeclareWinner(e, v) ==
  /\ e \in DOMAIN bt_experiments
  /\ bt_experiments[e].test_winner = ""
  /\ v \in may_win[e]
  /\ Step([World EXCEPT !.bt_experiments[e].test_winner = v])

Next ==
  \/ \E p \in Pages : LoadPage(p)
  \/ Tick
  \/ MouseMove
  \/ Scroll
  \/ KeyDown
  \/ abstActiveTimeout
  \/ \E l \in listeners : Click(l)
  \/ \E h \in intervals : TextFound(h)
  \/ \E e \in Eids, amount \in Amounts : scOrderPaid(e, amount)
  \/ \E e \in Eids : \E v \in may_win[e] : DeclareWinner(e, v)

Spec == Init /\ [][Next]_vars

SpecStored == InitStored /\ [][Next]_vars

\* The state of the activity clock
clock == << mouseDirty, scrollDirty, abactive, timeoutTimer >>

\* What a run of the interval callback that finds the scroll position or the
\* pointer position changed does to the activity clock.
TickSamples ==
  /\ post_id # NoPage
  /\ mouseDirty \/ scrollDirty
  /\ mouseDirty' = FALSE
  /\ scrollDirty' = FALSE
  /\ abactive' = TRUE
  /\ timeoutTimer' = TRUE

\* The browser runs the interval callback every second and the timeout
\* callback when its delay has passed: a changed position is eventually
\* sampled and a pending timeout eventually fires.
SpecClock ==
  Init /\ [][Next]_vars /\ WF_clock(TickSamples) /\ WF_vars(abstActiveTimeout)

\* The calls a tab may start
MaxTabCalls == 3

\* The pages of the tabs were loaded together: every tab has the listeners
\* of the page.  A tab is about to run the listener l: it reads the record
\* (abstGetCookie) and ends the call when the record does not let it go on.
TabRead(t, l) ==
  /\ post_id # NoPage
  /\ l \in listeners /\ ~l.frame
  /\ tabs[t].pc = "idle" /\ tabs[t].calls < MaxTabCalls
  /\ LET c == btab[l.eid]
         goOn == /\ IsJson(c)
                 /\ IF l.goalId = 0 THEN c.conversion = 0
                    ELSE c.conversion # 1 /\ c.hasGoals
     IN tabs' = [tabs EXCEPT ![t] =
                   IF goOn
                     THEN [pc |-> "read", eid |-> l.eid, goalId |-> l.goalId,
                           btab |-> c, calls |-> @.calls + 1]
                     ELSE [@ EXCEPT !.calls = @ + 1]]
  /\ UNCHANGED << bt_experiments, conversion_details, btab_vars, page_markup,
                  may_win, btab, abSetVisit, absttimer, post_id, timer,
                  abactive, timeoutTimer, scrollDirty, mouseDirty, intervals,
                  listeners, scListeners, abConversionValue, shown, showPage,
                  location, reports, loads, ticked, fired, noops, context,
                  pended, readyThrew, idled,
                  useState, flushed, created >>

\* The tab goes on to bt_experiment_w, which writes a record of its own and
\* sends the event.
TabReport(t) ==
  /\ tabs[t].pc = "read"
  /\ LET c == tabs[t].btab
         type == IF tabs[t].goalId = 0 THEN TypeConversion
                 ELSE TypeGoal(tabs[t].goalId)
         w1 == bt_experiment_w(World, tabs[t].eid, c.variation, type, "", 1)
     IN Commit([w1 EXCEPT !.tabs[t].pc = "reported"])

\* The tab writes back the record it read, with the conversion or the goal
\* marked (abstSetCookie), and the call returns.
TabWrite(t) ==
  /\ tabs[t].pc = "reported"
  /\ LET c == tabs[t].btab
         e == tabs[t].eid
         g == tabs[t].goalId
     IN Commit([World EXCEPT
                  !.btab[e] = IF g = 0 THEN [c EXCEPT !.conversion = 1]
                              ELSE [c EXCEPT !.goals = @ \cup {g}],
                  !.tabs[t] = [IdleTab EXCEPT !.calls = tabs[t].calls]])

\* The first load of the page, in all tabs
TabsLoad(p) == loads = 0 /\ LoadPage(p)

NextTabs ==
  \/ \E p \in Pages : TabsLoad(p)
  \/ \E t \in Tabs : \E l \in listeners : TabRead(t, l)
  \/ \E t \in Tabs : TabReport(t)
  \/ \E t \in Tabs : TabWrite(t)

\* Two tabs whose calls of abstConvert and abstGoal interleave at the reads
\* and writes of the record
SpecTabs == Init /\ [][NextTabs]_vars

(***************************************************************************)
(* useState of sync/index.js: a state with batched updates.                *)
(***************************************************************************)
MaxQueue == 3

MaxValue == 8

\* (prev) => prev + 1, (prev) => prev * 2 and the value 3
Updates == {Functional("inc"), Functional("dbl"), Direct(3)}

\* An update function that throws
Throwing == Functional("throw")

\* typeof update === "function" ? update(newState) : update
ApplyUpdate(update, newState) ==
  IF update.fn = "value" THEN update.v
  ELSE IF update.fn = "inc" THEN newState + 1
  ELSE newState * 2

\* while (updateQueue.length > 0) { const update = updateQueue.shift(); ... }
\* The loop ends at an update that throws.
RECURSIVE ApplyQueue(_, _)
ApplyQueue(newState, updateQueue) ==
  IF updateQueue = << >> \/ Head(updateQueue) = Throwing THEN newState
  ELSE ApplyQueue(ApplyUpdate(Head(updateQueue), newState), Tail(updateQueue))

\* What is left of the queue when the loop has ended: nothing, or what came
\* after the update that threw
RECURSIVE LeftInQueue(_)
LeftInQueue(updateQueue) ==
  IF updateQueue = << >> THEN << >>
  ELSE IF Head(updateQueue) = Throwing THEN Tail(updateQueue)
  ELSE LeftInQueue(Tail(updateQueue))

\* An update of the queue throws
Throws(updateQueue) ==
  \E i \in 1..Len(updateQueue) : updateQueue[i] = Throwing

\* The flush is scheduled by the call that finds isFlushing false.
setState(s, next) ==
  [s EXCEPT !.updateQueue = Append(@, next),
            !.isFlushing = TRUE,
            !.microtask = @ \/ ~s.isFlushing]

\* listeners.forEach((listener) => listener(state)): what each subscriber
\* is called with in the flush of s that ends in newState
Notified(s, newState) ==
  [l \in Subscribers |->
     IF newState # s.state /\ l \in s.listeners THEN << newState >> ELSE << >>]

\* flushQueue that applies the last update of the queue only
flushQueue_LastOnly(s) ==
  LET newState == IF s.updateQueue = << >> THEN s.state
                  ELSE ApplyUpdate(s.updateQueue[Len(s.updateQueue)], s.state)
      told == Notified(s, newState)
  IN [state |-> newState, listeners |-> s.listeners,
      updateQueue |-> IF told["reset"] # << >> THEN << Direct(0) >> ELSE << >>,
      isFlushing |-> FALSE, microtask |-> FALSE]

\* The subscriber "reset" calls setState(0) while isFlushing is still true,
\* which adds to the queue and schedules nothing.  An update that throws
\* ends flushQueue in the loop: the state and isFlushing stay as they were.
flushQueue(s) ==
  LET newState == ApplyQueue(s.state, s.updateQueue)
      told == Notified(s, newState)
  IN IF Throws(s.updateQueue)
       THEN [s EXCEPT !.updateQueue = LeftInQueue(@), !.microtask = FALSE]
       ELSE [state |-> newState, listeners |-> s.listeners,
             updateQueue |-> IF told["reset"] # << >> THEN << Direct(0) >>
                             ELSE << >>,
             isFlushing |-> FALSE, microtask |-> FALSE]

\* The variables of the page script, which useState does not touch
abst == << bt_experiments, conversion_details, btab_vars, page_markup, may_win,
          btab, abSetVisit, absttimer, post_id, timer, abactive, timeoutTimer,
          scrollDirty, mouseDirty, intervals, listeners, scListeners,
          abConversionValue, shown, showPage, location, reports, loads,
          ticked, fired, noops, context, pended, readyThrew, idled, tabs >>

CallSetState(next) ==
  /\ Len(flushed.calls) < MaxQueue
  /\ ApplyQueue(useState.state, Append(useState.updateQueue, next)) <= MaxValue
  /\ useState' = setState(useState, next)
  /\ flushed' = [flushed EXCEPT !.calls = Append(@, next)]
  /\ UNCHANGED << abst, created >>

\* The microtask of Promise.resolve().then(() => flushQueue())
Flush ==
  /\ useState.microtask
  /\ useState' = flushQueue(useState)
  /\ flushed' = [calls |-> useState'.updateQueue, destroyed |-> FALSE,
                 applied |-> Len(useState.updateQueue),
                 before |-> useState.state,
                 notified |-> IF Throws(useState.updateQueue)
                                THEN NoFlush.notified
                                ELSE Notified(useState, useState'.state)]
  /\ UNCHANGED << abst, created >>

Subscribe(l) ==
  /\ l \notin useState.listeners
  /\ useState' = [useState EXCEPT !.listeners = @ \cup {l}]
  /\ UNCHANGED << abst, flushed, created >>

\* The function that subscribe returned
Unsubscribe(l) ==
  /\ l \in useState.listeners
  /\ useState' = [useState EXCEPT !.listeners = @ \ {l}]
  /\ UNCHANGED << abst, flushed, created >>

Destroy ==
  /\ useState' = [useState EXCEPT !.listeners = {}, !.updateQueue = << >>]
  /\ flushed' = [flushed EXCEPT !.destroyed = @ \/ flushed.calls # << >>]
  /\ UNCHANGED << abst, created >>

NextUseState ==
  \/ \E next \in Updates : CallSetState(next)
  \/ Flush
  \/ \E l \in Subscribers : Subscribe(l)
  \/ \E l \in Subscribers : Unsubscribe(l)
  \/ Destroy

\* useState(0) in a page of the site SiteClick
InitUseState == Init /\ bt_experiments = SiteClick.bt_experiments

SpecUseState == InitUseState /\ [][NextUseState]_vars

(***************************************************************************)
(* createState of part_000: useState with listeners of its own, which every *)
(* update notifies.                                                        *)
(***************************************************************************)
\* wrappedSetState(update): setState((prev) => { nextState = ...;
\* notifyListeners(); return nextState; })
wrappedSetState(s, update) == setState(s, update)

\* notifyListeners() in each update function of the queue: the listeners are
\* called with getState(), the state that flushQueue has not assigned yet
RECURSIVE notifyListeners(_, _, _)
notifyListeners(s, c, updateQueue) ==
  IF updateQueue = << >> \/ c.listeners = {} THEN << >>
  ELSE << s.state >> \o notifyListeners(s, c, Tail(updateQueue))

\* The calls a listener is to get: for every update of the queue at which it
\* was subscribed, the state that results from that update
RECURSIVE ResultsOf(_, _, _)
ResultsOf(newState, updateQueue, subscribed) ==
  IF updateQueue = << >> THEN << >>
  ELSE LET nextState == ApplyUpdate(Head(updateQueue), newState)
       IN (IF Head(subscribed) THEN << nextState >> ELSE << >>)
            \o ResultsOf(nextState, Tail(updateQueue), Tail(subscribed))

CallWrappedSetState(update) ==
  /\ Len(useState.updateQueue) < MaxQueue
  /\ ApplyQueue(useState.state, Append(useState.updateQueue, update))
       <= MaxValue
  /\ useState' = wrappedSetState(useState, update)
  /\ created' = [created EXCEPT
                   !.subscribed = Append(@, created.listeners # {})]
  /\ UNCHANGED << abst, flushed >>

\* The microtask that runs flushQueue, whose update functions notify
FlushCreated ==
  /\ useState.microtask
  /\ useState' = flushQueue(useState)
  /\ created' = [created EXCEPT
                   !.subscribed = << >>,
                   !.called = notifyListeners(useState, created,
                                              useState.updateQueue),
                   !.expected = ResultsOf(useState.state, useState.updateQueue,
                                          created.subscribed)]
  /\ UNCHANGED << abst, flushed >>

SubscribeCreated ==
  /\ created.listeners = {}
  /\ created' = [created EXCEPT !.listeners = {"log"}]
  /\ UNCHANGED << abst, useState, flushed >>

UnsubscribeCreated ==
  /\ created.listeners # {}
  /\ created' = [created EXCEPT !.listeners = {}]
  /\ UNCHANGED << abst, useState, flushed >>

NextCreateState ==
  \/ \E update \in Updates : CallWrappedSetState(update)
  \/ FlushCreated
  \/ SubscribeCreated
  \/ UnsubscribeCreated

SpecCreateState == InitUseState /\ [][NextCreateState]_vars

\* The same with update functions that throw
NextThrows ==
  \/ NextUseState
  \/ CallSetState(Throwing)

SpecThrows == InitUseState /\ [][NextThrows]_vars

(***************************************************************************)
(* Properties.                                                             *)
(***************************************************************************)
RECURSIVE SumCopies(_, _)
SumCopies(S, B) ==
  IF S = {} THEN 0
  ELSE LET x == CHOOSE y \in S : TRUE
       IN CopiesIn(x, B) + SumCopies(S \ {x}, B)

\* Number of reported events of an experiment of one type
ReportsOf(rep, e, type) ==
  SumCopies({ev \in BagToSet(rep) : ev.eid = e /\ ev.type = type}, rep)

GoalReportsOf(rep, e, g) ==
  SumCopies({ev \in BagToSet(rep) : ev.eid = e /\ ev.type = "goal"
                                    /\ ev.goal = g}, rep)

Converted(c) == IsJson(c) /\ c.conversion = 1

Open(c) == IsJson(c) /\ c.conversion = 0

OrderValues == {1, 5}

\* C1: at most one conversion event is reported per experiment, and
\* abstConvert on a converted record reports nothing and changes nothing
\* that is persisted.
C1_AtMostOneConversion ==
  \A e \in DOMAIN bt_experiments :
    /\ ReportsOf(reports, e, "conversion") <= 1
    /\ Converted(btab[e]) =>
         \A orderValue \in OrderValues :
           LET r == abstConvert(World, e, orderValue)
           IN /\ r.btab = btab
              /\ r.reports = reports
              /\ r.abSetVisit = abSetVisit
              /\ r.timer = timer

\* C1 witness: a conversion was reported and abstConvert was called again on
\* the converted record.
C1_Witness ==
  \E e \in DOMAIN bt_experiments :
    /\ ReportsOf(reports, e, "conversion") = 1
    /\ Handle(e, 0) \in DOMAIN noops
    /\ Converted(btab[e])

\* C2 (as claimed): at most one goal event is reported per goal of an
\* experiment, whatever the number of firings of its trigger.
C2_OneGoalEvent ==
  \A e \in DOMAIN bt_experiments :
    \A g \in 1..GoalSlots : GoalReportsOf(reports, e, g) <= 1

\* C3: once a record is converted, no step changes its converted flag or its
\* completed goals or reports a conversion or goal event for the experiment.
C3_ConvertedTerminal ==
  [][\A e \in DOMAIN bt_experiments :
       Converted(btab[e]) =>
         /\ Converted(btab'[e])
         /\ btab'[e].goals = btab[e].goals
         /\ ReportsOf(reports', e, "conversion") = ReportsOf(reports, e, "conversion")
         /\ ReportsOf(reports', e, "goal") = ReportsOf(reports, e, "goal")]_vars

\* C3 witness: convert, then completeGoal(1), on a record without completed
\* goals: the record is converted with no goals.
C3_Witness ==
  \E e \in DOMAIN bt_experiments :
    /\ Converted(btab[e])
    /\ ~btab[e].skipped
    /\ btab[e].goals = {}
    /\ Handle(e, 1) \in DOMAIN noops
    /\ ReportsOf(reports, e, "goal") = 0

AllContexts == [query : Queries, width : Widths]

\* C4: when a record is stored for an experiment without winner, the
\* assignment of the experiment on any page load that reaches the assignment
\* loop returns the variation of the record whatever Math.random() returns,
\* and writes nothing.
C4_IdempotentBucketing ==
  \A p \in page_markup.pages : \A e \in DOMAIN bt_experiments :
    LET w4 == PreResolve(World, p)
        v == btab[e].variation
        url == RedirectUrl(w4, e, v)
    IN (IsJson(btab[e]) /\ bt_experiments[e].test_winner = ""
        /\ InCurrentExp(w4, e) /\ ~w4.threw) =>
         \A d \in Draws : \A ctx \in Contexts :
           LET r == ResolveExperiment(w4, e, d, ctx)
           IN /\ r.btab = w4.btab
              /\ r.reports = w4.reports
              /\ r.abSetVisit = w4.abSetVisit
              /\ r.timer = w4.timer
              /\ r.shown[e] \subseteq (w4.shown[e] \cup {v})
              /\ \A x \in Eids \ {e} : r.shown[x] = w4.shown[x]
              /\ IF Truthy(url)
                   THEN r.location = abRedirectUrl(url)
                   ELSE r.location = w4.location
                        /\ (v \in Range(Variations(w4, e)) => v \in r.shown[e])

\* C4 witness: a visitor assigned b on the first page load was shown b again
\* on a later one, without a second visit.
C4_Witness ==
  \E e \in DOMAIN bt_experiments :
    /\ loads >= 2
    /\ bt_experiments[e].target_percentage = JsNumber(100)
    /\ bt_experiments[e].test_winner = ""
    /\ Open(btab[e])
    /\ btab[e].variation = "b"
    /\ shown[e] = {"b"}
    /\ ReportsOf(reports, e, "visit") = 1

\* C5: the variation of a stored record never changes.
C5_VariationImmutable ==
  [][\A e \in DOMAIN bt_experiments :
       IsJson(btab[e]) =>
         IsJson(btab'[e]) /\ btab'[e].variation = btab[e].variation]_vars

\* C5 witness: a record that was rewritten by a goal and by a conversion.
C5_Witness ==
  \E e \in DOMAIN bt_experiments :
    /\ Converted(btab[e])
    /\ ReportsOf(reports, e, "conversion") = 1
    /\ ReportsOf(reports, e, "goal") >= 1
    /\ \E ev \in BagToSet(reports) :
         ev.eid = e /\ ev.type = "visit" /\ ev.variation = btab[e].variation

\* C6 (as claimed): no goal index is ever removed from a stored record.
C6_GoalsOnlyGrow ==
  [][\A e \in DOMAIN bt_experiments :
       (IsJson(btab[e]) /\ IsJson(btab'[e])) =>
         btab[e].goals \subseteq btab'[e].goals]_vars

\* C7 (as claimed): with target_percentage the number 0 no visitor is
\* sampled: no visit is reported and no record other than a skip record is
\* stored.
C7_TargetingGate ==
  \A e \in DOMAIN bt_experiments :
    bt_experiments[e].target_percentage = JsNumber(0) =>
      /\ ReportsOf(reports, e, "visit") = 0
      /\ IsJson(btab[e]) => btab[e].skipped

\* The experiment has elements (or handles, or css classes) on the page.
OnPage(e, p) ==
  LET exp == bt_experiments[e] IN
  \/ exp.test_type = "css_test"
  \/ exp.test_type = "full_page" /\ exp.full_page_default_page = p
  \/ exp.markup[p] # << >>

\* C8 (as claimed): on a page load, an experiment with a winner yields the
\* winner, whatever record is stored, and nothing is drawn or stored for it.
C8_WinnerOverride ==
  [][loads' = loads + 1 =>
       \A e \in DOMAIN bt_experiments :
         LET exp == bt_experiments[e]
             winner == exp.test_winner
         IN (Truthy(winner) /\ OnPage(e, post_id')) =>
              /\ HasCookie(btab'[e]) = HasCookie(btab[e])
              /\ IsJson(btab[e]) => btab'[e].variation = btab[e].variation
              /\ ReportsOf(reports', e, "visit") = ReportsOf(reports, e, "visit")
              /\ IF exp.test_type = "full_page"
                   THEN IF winner = post_id'
                          THEN showPage' /\ location' = ""
                          ELSE location' = PageVariationUrl(exp, winner)
                   ELSE shown'[e] = {winner}]_vars

\* C9: a timer set to N > 0 seconds holds N - t after t runs of abstOneSecond
\* (-1 from run N + 1 on) and has called abstConvert / abstGoal exactly once
\* when t >= N and not before; the call leaves the conversion / goal recorded.
C9_TimerExactness ==
  \A h \in DOMAIN ticked :
    LET N == TimerSeconds(World, h)
        t == ticked[h]
    IN N > 0 =>
         /\ h \in DOMAIN timer
         /\ timer[h] = IF t <= N THEN N - t ELSE -1
         /\ fired[h] = IF t >= N THEN 1 ELSE 0
         /\ t >= N => /\ IsJson(btab[h.eid])
                      /\ \/ Converted(btab[h.eid])
                         \/ h.goalId \in btab[h.eid].goals

\* C9 witness: a conversion timer that went through 0 to -1 and called once.
C9_Witness ==
  \E h \in DOMAIN ticked :
    /\ h.goalId = 0
    /\ ticked[h] = TimerSeconds(World, h) + 1
    /\ timer[h] = -1
    /\ fired[h] = 1
    /\ ReportsOf(reports, h.eid, "conversion") = 1

\* C10: (a) when the assignment of a full-page experiment sends a new visitor
\* to another page, 'ab-set-visit' holds the visit of that experiment and
\* variation and nothing was reported; (b) next_page_visit_report on a stored
\* visit reports exactly one visit event of that experiment and variation,
\* which was not reported before, and leaves no stored visit; (c) on the value
\* left by a consumption it reports nothing.
C10_RedirectVisitBoundary ==
  /\ \A p \in page_markup.pages : \A e \in DOMAIN bt_experiments :
       LET w4 == PreResolve(World, p) IN
       (bt_experiments[e].test_type = "full_page" /\ InCurrentExp(w4, e)
        /\ ~HasCookie(w4.btab[e])) =>
          \A d \in Draws : \A ctx \in AllContexts :
            LET r == ResolveExperiment(w4, e, d, ctx)
            IN r.location # w4.location =>
                 /\ IsJson(r.abSetVisit)
                 /\ r.abSetVisit.eid = e
                 /\ r.abSetVisit.type = TypeVisit
                 /\ PageVariationUrl(bt_experiments[e], r.abSetVisit.variation)
                      = r.location
                 /\ r.reports = w4.reports
  /\ IsJson(abSetVisit) =>
       LET r == next_page_visit_report(World)
           ev == [eid |-> abSetVisit.eid, variation |-> abSetVisit.variation,
                  type |-> "visit", goal |-> 0, orderValue |-> 1]
       IN /\ ReportsOf(reports, abSetVisit.eid, "visit") = 0
          /\ r.reports = reports (+) SetToBag({ev})
          /\ ~IsJson(r.abSetVisit)
  /\ ~IsJson(abSetVisit) => next_page_visit_report(World).reports = reports

\* C10 witness: the visit stored on p1 was reported once on p2 and a later
\* page load found the consumed value.
C10_Witness ==
  \E e \in DOMAIN bt_experiments :
    /\ bt_experiments[e].test_type = "full_page"
    /\ abSetVisit = FalseCookie
    /\ loads = 3
    /\ IsJson(btab[e]) /\ btab[e].variation = "p2"
    /\ ReportsOf(reports, e, "visit") = 1

\* C11 (as claimed): a visit stored in 'ab-set-visit' by a page load is the
\* stored value when the page load ends, for every experiment the load stored
\* one for, and the next page load reports a visit of each such experiment.
C11_PendingNotLost ==
  [][/\ \A e \in pended' : IsJson(abSetVisit') /\ abSetVisit'.eid = e
     /\ loads' = loads + 1 =>
          \A e \in pended :
            ReportsOf(reports', e, "visit") = ReportsOf(reports, e, "visit") + 1]_vars

\* The assignment loop of a page load reaches the targeting of e: e is on the
\* page, runs without winner, and the visitor has no stored value for it nor
\* a stored visit that the page load turns into one.
NewVisitor(e, p) ==
  /\ OnPage(e, p)
  /\ bt_experiments[e].test_winner = ""
  /\ bt_experiments[e].is_current_user_track
  /\ bt_experiments[e].test_status = "publish"
  /\ ~HasCookie(btab[e])
  /\ ~(IsJson(abSetVisit) /\ abSetVisit.eid = e)

\* C12 (as claimed): a page load that finds a new visitor outside the
\* audience of an experiment stores a skip record for it.
C12_AudienceSkipRecord ==
  [][loads' = loads + 1 =>
       \A e \in DOMAIN bt_experiments :
         (NewVisitor(e, post_id') /\ ~readyThrew'
          /\ ~TargetVisitor(bt_experiments[e], context')) =>
            IsJson(btab'[e]) /\ btab'[e].skipped]_vars

\* target_percentage as configured: the share of the visitors to sample, 100
\* when it is left empty
ConfiguredPercentage(exp) ==
  IF exp.target_percentage = EmptyString THEN 100 ELSE exp.target_percentage.n

\* C13 (as claimed): (a) for a new visitor inside the audience and a roll
\* above the configured percentage, the assignment stores a skip record of
\* the variation it shows and reports nothing; (b) no step changes a stored
\* skip record.
C13_PercentageSkip ==
  /\ [](\A p \in page_markup.pages : \A e \in DOMAIN bt_experiments :
          NewVisitor(e, p) =>
            LET w4 == PreResolve(World, p) IN
            \A d \in DrawsOf(e) : \A ctx \in Contexts :
              (/\ ~w4.threw
               /\ ~HasCookie(w4.btab[e])
               /\ TargetVisitor(bt_experiments[e], ctx)
               /\ getRandomInt(1, 100, d.u3)
                     > ConfiguredPercentage(bt_experiments[e])) =>
                 LET r == ResolveExperiment(w4, e, d, ctx)
                 IN /\ IsJson(r.btab[e])
                    /\ r.btab[e].skipped
                    /\ r.btab[e].variation \in r.shown[e]
                    /\ r.reports = w4.reports)
  /\ [][\A e \in DOMAIN bt_experiments :
          (IsJson(btab[e]) /\ btab[e].skipped) => btab'[e] = btab[e]]_vars

\* The experiment is held back: it is not published or the visitor is not
\* to be tracked.
Gated(exp) == exp.test_status # "publish" \/ ~exp.is_current_user_track

\* C14: a page load with an experiment on the page that has no winner and is
\* not published or not tracked shows a variation of the experiment and
\* leaves its stored value as it was, stores no visit for it and reports no
\* event of it.
C14_GatedStoreUnchanged ==
  [][loads' = loads + 1 =>
       \A e \in DOMAIN bt_experiments :
         (OnPage(e, post_id') /\ bt_experiments[e].test_winner = ""
          /\ Gated(bt_experiments[e]) /\ ~readyThrew') =>
            /\ btab'[e] = btab[e]
            /\ e \notin pended'
            /\ \A t \in {"visit", "conversion", "goal"} :
                 ReportsOf(reports', e, t) = ReportsOf(reports, e, t)
            /\ shown'[e] # {}]_vars

\* C14 witness: pages were loaded with both held-back experiments on them,
\* their defaults are shown and nothing is stored or reported.
C14_Witness ==
  /\ loads >= 2
  /\ \A e \in DOMAIN bt_experiments :
       Gated(bt_experiments[e]) /\ btab[e] = NoCookie /\ shown[e] # {}
  /\ reports = EmptyBag
  /\ abSetVisit = NoCookie

\* The variations of an experiment declared on page p, in document order
DeclaredVariations(e, p) ==
  LET exp == bt_experiments[e] IN
  Variations([World EXCEPT
                !.post_id = p,
                !.redirectHandles =
                   IF exp.test_type = "full_page"
                      /\ exp.full_page_default_page = p THEN {e} ELSE {}], e)

FirstTwo(seq) == {seq[i] : i \in 1..(IF Len(seq) < 2 THEN Len(seq) ELSE 2)}

FreshRecord(c) == IsJson(c) /\ c.conversion = 0 /\ c.goals = {} /\ c.hasGoals

\* C15: (a) the record a page load stores for a new visitor it samples is
\* fresh (not converted, no goals) and holds one of the variations declared
\* on the page, one of the first two under the free version; (b) the record
\* the next page load makes of a stored visit is fresh and holds the
\* variation of the stored visit, a variation of that experiment.
C15_FreshAssignment ==
  [][loads' = loads + 1 =>
       \A e \in DOMAIN bt_experiments :
         /\ (NewVisitor(e, post_id') /\ IsJson(btab'[e]) /\ ~btab'[e].skipped) =>
              /\ FreshRecord(btab'[e])
              /\ btab'[e].variation \in Range(DeclaredVariations(e, post_id'))
              /\ btab_vars.is_free =>
                   btab'[e].variation \in FirstTwo(DeclaredVariations(e, post_id'))
         /\ (IsJson(abSetVisit) /\ abSetVisit.eid = e /\ ~HasCookie(btab[e])) =>
              LET r == next_page_visit_report(World).btab[e]
              IN /\ FreshRecord(r)
                 /\ r.variation = abSetVisit.variation
                 /\ r.variation \in
                      Range(PageVariationIds(bt_experiments[e]))]_vars

\* C15 witness: under the free version a visitor was assigned b, the second
\* of three variations, and the visit was reported.
C15_Witness ==
  \E e \in DOMAIN bt_experiments :
    /\ FreshRecord(btab[e])
    /\ btab_vars.is_free
    /\ Len(DeclaredVariations(e, post_id)) = 3
    /\ btab[e].variation = "b"
    /\ ReportsOf(reports, e, "visit") = 1

\* C16 (as claimed): a page load with an experiment that declares no
\* variation stores nothing for it, reports nothing of it, and its
\* document-ready handler runs to its end.
C16_NoVariations ==
  [][loads' = loads + 1 =>
       \A e \in DOMAIN bt_experiments :
         (OnPage(e, post_id') /\ DeclaredVariations(e, post_id') = << >>) =>
            /\ btab'[e] = btab[e]
            /\ e \notin pended'
            /\ \A t \in {"visit", "conversion", "goal"} :
                 ReportsOf(reports', e, t) = ReportsOf(reports, e, t)
            /\ ~readyThrew']_vars

\* C17 (as claimed): a page load that reaches the assignment of an
\* experiment whose stored value does not parse ends without uncaught
\* exception, leaves the stored value, reports nothing of the experiment and
\* shows a default variation of it.
C17_MalformedSkipped ==
  [][loads' = loads + 1 =>
       \A e \in DOMAIN bt_experiments :
         (/\ btab[e] = Malformed
          /\ OnPage(e, post_id')
          /\ bt_experiments[e].test_winner = ""
          /\ ~Gated(bt_experiments[e])
          /\ ~PreResolve(World, post_id').threw) =>
            /\ ~readyThrew'
            /\ btab'[e] = btab[e]
            /\ \A t \in {"visit", "conversion", "goal"} :
                 ReportsOf(reports', e, t) = ReportsOf(reports, e, t)
            /\ shown'[e] # {}]_vars

\* The click listener of the conversion selector of e
ConversionListener(e) == [eid |-> e, goalId |-> 0, frame |-> FALSE]

\* The stored value of e is absent or a record with a goals field.
Sound(c) == ~HasCookie(c) \/ (IsJson(c) /\ c.hasGoals)

\* C18 (as claimed): on a site without winners, a page load shows a variation
\* of every in-page experiment on the page that declares variations and whose
\* own stored value is sound, and arms its conversion click listener (unless
\* it is converted), whatever the stored values of the other experiments are.
C18_Isolation ==
  [][loads' = loads + 1 =>
       \A e \in DOMAIN bt_experiments :
         (/\ \A x \in DOMAIN bt_experiments : bt_experiments[x].test_winner = ""
          /\ OnPage(e, post_id')
          /\ ~Gated(bt_experiments[e])
          /\ DeclaredVariations(e, post_id') # << >>
          /\ bt_experiments[e].test_type # "full_page"
          /\ Sound(btab[e])) =>
            /\ shown'[e] # {}
            /\ (bt_experiments[e].conversion_page = "selector"
                 /\ ~Converted(btab[e])) => ConversionListener(e) \in listeners']_vars

\* The winner of x is declared on the origin page p of a full-page test and
\* is p itself or no page variation of x.
WinnerMisconfigured(x, p) ==
  LET exp == bt_experiments[x] IN
  /\ Truthy(exp.test_winner)
  /\ exp.test_type = "full_page" /\ exp.full_page_default_page = p
  /\ \/ exp.test_winner = p
     \/ PageVariationUrl(exp, exp.test_winner) = Undefined

\* C19 (as claimed): a page load on which an experiment has a misconfigured
\* winner still arms the conversion click listener of every experiment
\* without a winner that is listed after it and is not converted.
C19_WinnerErrorNotFatal ==
  [][loads' = loads + 1 =>
       \A i, j \in 1..Len(ExpOrder) :
         (/\ i < j
          /\ ExpOrder[i] \in DOMAIN bt_experiments
          /\ ExpOrder[j] \in DOMAIN bt_experiments
          /\ WinnerMisconfigured(ExpOrder[i], post_id')
          /\ bt_experiments[ExpOrder[j]].test_winner = ""
          /\ bt_experiments[ExpOrder[j]].conversion_page = "selector"
          /\ Sound(btab[ExpOrder[j]]) /\ ~Converted(btab[ExpOrder[j]])) =>
            ConversionListener(ExpOrder[j]) \in listeners']_vars

\* C20: every value of the timer state is at least -1, and a step that is
\* not a page load leaves a value of -1 as it is.
C20_TimerFloor ==
  /\ [](\A h \in DOMAIN timer : timer[h] >= -1)
  /\ [][loads' = loads =>
          \A h \in DOMAIN timer :
            timer[h] = -1 => h \in DOMAIN timer' /\ timer'[h] = -1]_vars

\* C20 witness: the timer of a goal is at -1 after it called abstGoal once,
\* and the timer state stored for the next page holds the same value.
C20_Witness ==
  \E h \in DOMAIN timer :
    /\ h.goalId # 0
    /\ timer[h] = -1
    /\ h \in DOMAIN fired /\ fired[h] = 1
    /\ absttimer.k = "json" /\ absttimer.timer[h] = -1

\* C21: when the clock is inactive and no pointer movement or scroll is
\* pending, the interval callback leaves the timers in memory, the persisted
\* timers, the stored records and the reported events as they are.
C21_InactiveTick ==
  (post_id # NoPage /\ ~abactive /\ ~scrollDirty /\ ~mouseDirty) =>
    LET r == timerInterval(World)
    IN /\ r.timer = timer
       /\ r.absttimer = absttimer
       /\ r.btab = btab
       /\ r.reports = reports
       /\ r.fired = fired
       /\ ~r.abactive

\* C21 witness: the callback ran while the clock was inactive, a timer that
\* was decremented before still counts down and is persisted with its value.
C21_Witness ==
  /\ idled /\ ~abactive /\ ~scrollDirty /\ ~mouseDirty
  /\ \E h \in DOMAIN timer :
       /\ timer[h] > 0
       /\ h \in DOMAIN ticked /\ ticked[h] >= 1
       /\ IsJson(absttimer) /\ absttimer.timer[h] = timer[h]

\* C22 (as claimed): a page load keeps every timer that is counting down,
\* with the value it had before the load.
C22_ReloadResumes ==
  [][loads' = loads + 1 =>
       \A h \in DOMAIN timer :
         timer[h] > 0 => h \in DOMAIN timer' /\ timer'[h] = timer[h]]_vars

\* A timer entry that is still counting down
Counting(h) == h \in DOMAIN timer /\ timer[h] > 0

\* C23 (as claimed): no timer of the conversion of a converted experiment and
\* no timer of a completed goal is still counting down.
C23_TimersCleared ==
  \A e \in DOMAIN bt_experiments :
    IsJson(btab[e]) =>
      /\ Converted(btab[e]) => ~Counting(Handle(e, 0))
      /\ \A i \in btab[e].goals : ~Counting(Handle(e, i))

\* A step in which the visitor interacts, the script takes note of an
\* interaction, or a page is loaded
SignalStep ==
  \/ loads' # loads
  \/ mouseDirty' # mouseDirty
  \/ scrollDirty' # scrollDirty
  \/ timeoutTimer' /\ ~timeoutTimer
  \/ abactive' /\ ~abactive

TargetDone(c, goalId) ==
  /\ IsJson(c)
  /\ IF goalId = 0 THEN c.conversion = 1
     ELSE c.hasGoals /\ GoalsAt(c.goals, goalId) = "1"

\* Number of reported events of the target of a poll
TargetReportsOf(rep, h) ==
  IF h.goalId = 0 THEN ReportsOf(rep, h.eid, "conversion")
  ELSE GoalReportsOf(rep, h.eid, h.goalId)

\* C25: (a) a poll that is running after a page load has a target that the
\* record did not show as completed, neither before the load nor after it;
\* (b) the tick in which a poll finds its text ends that poll, so that it can
\* find the text only once, reports at most one event of its target, and
\* reports exactly one and marks the target completed when the record was
\* open and did not show the target completed.
C25_TextPoll ==
  /\ [][loads' = loads + 1 =>
          \A h \in intervals' :
            /\ ~TargetDone(btab[h.eid], h.goalId)
            /\ ~TargetDone(btab'[h.eid], h.goalId)]_vars
  /\ [][\A h \in intervals :
          (loads' = loads /\ h \notin intervals') =>
            /\ intervals' = intervals \ {h}
            /\ TargetReportsOf(reports', h) <= TargetReportsOf(reports, h) + 1
            /\ (Open(btab[h.eid]) /\ btab[h.eid].hasGoals
                  /\ ~TargetDone(btab[h.eid], h.goalId)) =>
                 /\ TargetReportsOf(reports', h)
                      = TargetReportsOf(reports, h) + 1
                 /\ TargetDone(btab'[h.eid], h.goalId)]_vars

\* C25 witness: the poll of a text conversion, or of a text goal, found its
\* text, reported its target once, left it completed in the record and is no
\* longer running.
C25_Witness ==
  /\ post_id # NoPage
  /\ \E e \in DOMAIN bt_experiments :
       \/ /\ bt_experiments[e].conversion_page = "text"
          /\ Handle(e, 0) \notin intervals
          /\ Converted(btab[e])
          /\ ReportsOf(reports, e, "conversion") = 1
       \/ \E i \in 1..Len(bt_experiments[e].goals) :
            /\ bt_experiments[e].goals[i].kind = "text"
            /\ Handle(e, i) \notin intervals
            /\ TargetDone(btab[e], i)
            /\ GoalReportsOf(reports, e, i) = 1

\* C26 (as claimed): when a step on a loaded page completes the conversion of
\* an experiment, no poll of that conversion is running after it, and when it
\* completes goal i, no poll of goal i is running after it.
C26_Cancellation ==
  [][loads' = loads =>
       \A e \in DOMAIN bt_experiments :
         /\ (Converted(btab'[e]) /\ ~Converted(btab[e]))
               => Handle(e, 0) \notin intervals'
         /\ \A i \in 1..Len(bt_experiments[e].goals) :
              (TargetDone(btab'[e], i) /\ ~TargetDone(btab[e], i))
                => Handle(e, i) \notin intervals']_vars

\* The setup of experiment e ran to its end in the page load: nobody is
\* declared winner of an experiment, and the ready handler did not throw.
SetupRan(e) ==
  /\ loads' = loads + 1
  /\ ~readyThrew'
  /\ \A x \in DOMAIN bt_experiments : Falsy(bt_experiments[x].test_winner)

\* Goal i of experiment e is armed after the step, or was evaluated in it: a
\* click goal has its listener, a text goal its poll, and a page goal of the
\* page that was loaded is completed when the record was open.
GoalArmed(e, i) ==
  LET goal == bt_experiments[e].goals[i] IN
  /\ goal.kind = "selector" =>
       [eid |-> e, goalId |-> i, frame |-> FALSE] \in listeners'
  /\ goal.kind = "text" => Handle(e, i) \in intervals'
  /\ (goal.kind \in {"page", "url"} /\ goal.page = post_id' /\ Open(btab[e])
        /\ btab[e].hasGoals)
       => TargetDone(btab'[e], i)

\* C27 (as claimed): a page load whose setup runs arms every goal of every
\* experiment that the record does not show as completed, the last one
\* included.
C27_AllGoalsArmed ==
  [][\A e \in DOMAIN bt_experiments :
       SetupRan(e) =>
         \A i \in 1..Len(bt_experiments[e].goals) :
           ~TargetDone(btab[e], i) => GoalArmed(e, i)]_vars

\* C28 (as claimed): an order event received by the listener of an experiment
\* whose record is open converts it and reports one conversion, with the
\* amount of the event as order value, or 1 when the event has no amount;
\* an event received after that reports nothing.
C28_ExternalEvent ==
  \A e \in scListeners :
    Open(btab[e]) =>
      \A a \in Amounts :
        LET w == scOrderPaidListener(World, e, a)
            v == IF a # 0 THEN a ELSE 1
        IN /\ Converted(w.btab[e])
           /\ ReportsOf(w.reports, e, "conversion")
                = ReportsOf(reports, e, "conversion") + 1
           /\ \E ev \in BagToSet(w.reports) :
                ev.type = "conversion" /\ ev.eid = e /\ ev.orderValue = v
           /\ \A a2 \in Amounts :
                scOrderPaidListener(w, e, a2).reports = w.reports

\* C29 (as claimed, for the conversion event): when the calls of two tabs
\* interleave and no goal event is reported twice, at most one conversion
\* event of an experiment is a duplicate: at most two are reported.
C29_RaceBound ==
  \A e \in DOMAIN bt_experiments :
    (\A i \in 1..Len(bt_experiments[e].goals) :
        GoalReportsOf(reports, e, i) <= 1)
      => ReportsOf(reports, e, "conversion") <= 2

\* The step in which the scheduled flush runs
FlushStep == useState.isFlushing /\ ~useState'.isFlushing

\* The flush applied the calls of setState made since the flush before it, in
\* the order of the calls, and called every subscriber at most once, with the
\* state it ended in, and only when that state differs from the one before.
Batched ==
  /\ useState'.state = ApplyQueue(useState.state, flushed.calls)
  /\ \A l \in Subscribers :
       /\ Len(flushed'.notified[l]) <= 1
       /\ flushed'.notified[l] # << >> =>
            /\ l \in useState.listeners
            /\ flushed'.notified[l] = << useState'.state >>
            /\ useState'.state # useState.state

\* C30 (as claimed): every flush applies all the calls of setState made
\* before it, in call order, and notifies each subscriber at most once, with
\* the final state, and only if it differs from the state before the flush.
C30_AsClaimed == [][FlushStep => Batched]_vars

\* C30 (amended): the same for every flush before which destroy was not
\* called after the first of those calls of setState.
C30_Batching == [][(FlushStep /\ ~flushed.destroyed) => Batched]_vars

\* C30 witness: the flush applied setState(3), setState(prev => prev * 2)
\* and setState(prev => prev + 1) to the state 0 and notified the subscriber
\* once, with 7.
C30_Witness ==
  /\ ~useState.isFlushing
  /\ flushed.before = 0 /\ flushed.applied = 3
  /\ useState.state = 7
  /\ flushed.notified["log"] = << 7 >>

\* C31 (as claimed): after every flush isFlushing is false, also after one
\* in which an update function throws.
C31_FlagReset == [][(useState.microtask /\ ~useState'.microtask)
                      => ~useState'.isFlushing]_vars

\* C32 (as claimed): in every flush the listener of createState is called
\* once for every update that was made while it was subscribed, with the
\* state that results from that update, and for no other update.
C32_Notification == created.called = created.expected

\* C33 (as claimed): the key 'ab-set-visit' holds a pending visit or nothing:
\* once a page load has consumed the pending visit, a get of the key returns
\* nothing until a redirect writes a new one.
C33_PendingAbsent == HasCookie(abSetVisit) => IsJson(abSetVisit)

\* C34: in a single tab at most one visit event is ever reported for an
\* experiment, and a visitor who holds an assignment record of an experiment
\* has had exactly one visit reported for it: page loads that find the record,
\* redirecting or not, report no further visit.
C34_VisitOnce ==
  \A e \in DOMAIN bt_experiments :
    /\ ReportsOf(reports, e, "visit") <= 1
    /\ (IsJson(btab[e]) /\ ~btab[e].skipped) =>
         ReportsOf(reports, e, "visit") = 1

\* C34 witness: a full-page experiment whose visit was deferred on p1 and
\* reported on p2, and whose visitor was redirected again by a later load of
\* p1 that found the record.
C34_Witness ==
  \E e \in DOMAIN bt_experiments :
    /\ bt_experiments[e].test_type = "full_page"
    /\ loads = 3
    /\ post_id = "p1" /\ location = "p2"
    /\ abSetVisit = FalseCookie
    /\ IsJson(btab[e]) /\ btab[e].variation = "p2"
    /\ ReportsOf(reports, e, "visit") = 1

\* C35: a step taken while the stored record of an experiment is a skip
\* record reports no event of that experiment, whatever the step is (page
\* load, trigger firing or tick), and leaves the skip record in place.
C35_SkipSilent ==
  [][\A e \in DOMAIN bt_experiments :
       (IsJson(btab[e]) /\ btab[e].skipped) =>
         /\ \A ev \in BagToSet(reports') :
              ev.eid = e => CopiesIn(ev, reports') = CopiesIn(ev, reports)
         /\ btab'[e] = btab[e]]_vars

\* C35 witness: a visitor with a skip record whose conversion trigger fired
\* after a later page load, with no event of the experiment reported.
C35_Witness ==
  \E e \in DOMAIN bt_experiments :
    /\ IsJson(btab[e]) /\ btab[e].skipped
    /\ loads >= 2
    /\ Handle(e, 0) \in DOMAIN noops
    /\ \A ev \in BagToSet(reports) : ev.eid # e

\* C36: every goal or conversion event reported for an experiment comes with
\* a reported visit of that experiment and carries the variation of the
\* stored record; abstConvert and abstGoal called for an experiment without a
\* stored record report nothing and store nothing.
C36_EventsFollowVisit ==
  /\ \A ev \in BagToSet(reports) : ev.type # "visit" =>
       /\ ReportsOf(reports, ev.eid, "visit") >= 1
       /\ IsJson(btab[ev.eid]) /\ ev.variation = btab[ev.eid].variation
  /\ \A e \in DOMAIN bt_experiments : ~HasCookie(btab[e]) =>
       /\ abstConvert(World, e, 1) = World
       /\ \A g \in 1..GoalSlots : abstGoal(World, e, g) = World

\* C36 witness: a goal and then a conversion were reported for a visitor whose
\* visit was reported, all with the variation of the stored record.
C36_Witness ==
  \E e \in DOMAIN bt_experiments :
    /\ IsJson(btab[e]) /\ ~btab[e].skipped
    /\ ReportsOf(reports, e, "visit") = 1
    /\ ReportsOf(reports, e, "goal") >= 1
    /\ ReportsOf(reports, e, "conversion") >= 1
    /\ \A ev \in BagToSet(reports) :
         ev.eid = e => ev.variation = btab[e].variation

\* C37 (as claimed): the firing of a listener armed for a goal i > 0 reports
\* no conversion event and converts no record, whether it listens on the
\* document or on the document of an embedded frame.
C37_GoalTriggerOnlyGoal ==
  \A l \in listeners : l.goalId > 0 =>
    LET r == ClickHandler(World, l) IN
    /\ ReportsOf(r.reports, l.eid, "conversion")
         = ReportsOf(reports, l.eid, "conversion")
    /\ Converted(r.btab[l.eid]) => Converted(btab[l.eid])

\* C38 (as claimed): a page load that assigns a new visitor a variation of an
\* experiment, on a page that a page or url goal of the experiment names,
\* reports that goal during the load. Only goals the setup loop reaches are
\* considered.
C38_StaticGoalSameLoad ==
  [][loads' = loads + 1 =>
       \A e \in DOMAIN bt_experiments :
         \A i \in 1..(Len(bt_experiments[e].goals) - 1) :
           (/\ ~HasCookie(btab[e])
            /\ IsJson(btab'[e]) /\ ~btab'[e].skipped
            /\ bt_experiments[e].goals[i].kind \in {"page", "url"}
            /\ bt_experiments[e].goals[i].page = post_id')
             => GoalReportsOf(reports', e, i) >= 1]_vars

\* C39 (as claimed): under every interleaving of the reads and writes of two
\* tabs, a stored record that is converted stays converted.
C39_ConversionKept ==
  [][\A e \in DOMAIN bt_experiments :
       Converted(btab[e]) => Converted(btab'[e])]_vars

\* C40 (as claimed): whenever the update queue of useState holds an update, a
\* flush is scheduled, so that every queued update is applied.
C40_FlushScheduled == useState.updateQueue # << >> => useState.microtask

====
